---- MODULE Spec2Model ----
(***************************************************************************)
(* Dependency Resolution & Derivation Engine of the dependency management  *)
(* program: the task-status pivot, the gate engine (open_dependencies) and  *)
(* the six domain tracker builders, run in the fixed order of               *)
(* build_sap_tracker_initial over the relations of one SQLite database.     *)
(*                                                                         *)
(* Text is modelled by TLA+ strings, SQL NULL by the string "NULL" (no      *)
(* modelled column ever holds that text), dates by the MM/DD/YYYY strings   *)
(* the importers store and the ISO strings the builders derive from them.   *)
(***************************************************************************)
EXTENDS Integers, Sequences, FiniteSets, TLC

(***************************************************************************)
(* Bounds of the model.                                                    *)
(***************************************************************************)
MaxOrders == 2        \* orders 1..MaxOrders exist in the database
MaxEvents == 2        \* TaskEvents of one code for the focus order
MaxRuns == 3          \* the counter of consecutive rebuilds saturates here
MaxDayAdvance == 1    \* how many times the current date moves forward
MaxIngests == 1       \* how many times a new MPP snapshot is loaded
MaxStops == 1         \* how many rebuilds stop before their end

NULL == "NULL"

Orders == 1..MaxOrders

(***************************************************************************)
(* Strings: character order, comparison, UPPER, TRIM, INSTR.               *)
(***************************************************************************)
\* The characters of the modelled texts in ASCII (SQLite BINARY collation) order.
AsciiOrder == " -./0123456789:;ABCDEFGHIJKLMNOPQRSTUVWXYZabcdefghijklmnopqrstuvwxyz"

Ch(s, i) == SubSeq(s, i, i)

\* The 1-based position of character c in s at or after i, 0 when absent.
RECURSIVE InstrFrom(_, _, _)
InstrFrom(s, c, i) ==
  IF i > Len(s) THEN 0 ELSE IF Ch(s, i) = c THEN i ELSE InstrFrom(s, c, i + 1)

\* The characters of a text, and the position of each in it.
CharsOf(s) == {Ch(s, i) : i \in 1..Len(s)}
PositionIn(s) == [c \in CharsOf(s) |-> InstrFrom(s, c, 1)]

AsciiChars == CharsOf(AsciiOrder)
AsciiRank == PositionIn(AsciiOrder)

CharRank(c) == IF c \in AsciiChars THEN AsciiRank[c] ELSE 0

\* a < b in SQLite's BINARY collation (memcmp, the shorter prefix first).
RECURSIVE StrLess(_, _)
StrLess(a, b) ==
  IF b = "" THEN FALSE
  ELSE IF a = "" THEN TRUE
  ELSE IF Ch(a, 1) = Ch(b, 1) THEN StrLess(SubSeq(a, 2, Len(a)), SubSeq(b, 2, Len(b)))
  ELSE CharRank(Ch(a, 1)) < CharRank(Ch(b, 1))

StrLeq(a, b) == a = b \/ StrLess(a, b)

LowerLetters == "abcdefghijklmnopqrstuvwxyz"
UpperLetters == "ABCDEFGHIJKLMNOPQRSTUVWXYZ"

LowerChars == CharsOf(LowerLetters)
UpperChars == CharsOf(UpperLetters)
UpperOf == [c \in LowerChars |-> Ch(UpperLetters, InstrFrom(LowerLetters, c, 1))]
LowerOf == [c \in UpperChars |-> Ch(LowerLetters, InstrFrom(UpperLetters, c, 1))]

UpChar(c) == IF c \in LowerChars THEN UpperOf[c] ELSE c
LowChar(c) == IF c \in UpperChars THEN LowerOf[c] ELSE c

RECURSIVE UpperStr(_)
UpperStr(s) == IF s = "" THEN "" ELSE UpChar(Ch(s, 1)) \o UpperStr(SubSeq(s, 2, Len(s)))

RECURSIVE LTrim(_)
LTrim(s) == IF s # "" /\ Ch(s, 1) = " " THEN LTrim(SubSeq(s, 2, Len(s))) ELSE s

RECURSIVE RTrim(_)
RTrim(s) == IF s # "" /\ Ch(s, Len(s)) = " " THEN RTrim(SubSeq(s, 1, Len(s) - 1)) ELSE s

\* SQL scalar functions; each returns NULL on a NULL argument.
UPPER(s) == IF s = NULL THEN NULL ELSE UpperStr(s)
TRIM(s) == IF s = NULL THEN NULL ELSE RTrim(LTrim(s))
COALESCE(s, d) == IF s = NULL THEN d ELSE s
NULLIF(s, t) == IF s = t THEN NULL ELSE s
\* SUBSTR(s, from, n) and SUBSTR(s, from); both stop at the end of the text.
SUBSTR(s, from, n) == SubSeq(s, from, IF from + n - 1 > Len(s) THEN Len(s) ELSE from + n - 1)
SUBSTR_from(s, from) == SubSeq(s, from, Len(s))

\* INSTR(s, c) for a one-character c: the 1-based position, 0 when absent.
INSTR(s, c) == InstrFrom(s, c, 1)

(***************************************************************************)
(* Numbers in text.                                                        *)
(***************************************************************************)
Digits == "0123456789"

DigitChars == CharsOf(Digits)
DigitRank == PositionIn(Digits)

IsDigit(c) == c \in DigitChars

DigitVal(c) == DigitRank[c] - 1

RECURSIVE AllDigits(_)
AllDigits(s) == s = "" \/ (IsDigit(Ch(s, 1)) /\ AllDigits(SubSeq(s, 2, Len(s))))

RECURSIVE LeadingInt(_, _)
LeadingInt(s, acc) ==
  IF s # "" /\ IsDigit(Ch(s, 1))
  THEN LeadingInt(SubSeq(s, 2, Len(s)), (10 * acc) + DigitVal(Ch(s, 1)))
  ELSE acc

\* CAST(s AS INTEGER) of a text without sign: the leading digits, 0 when none.
CastInt(s) == LeadingInt(LTrim(s), 0)

Fmt2(n) == Ch(Digits, ((n \div 10) % 10) + 1) \o Ch(Digits, (n % 10) + 1)
Fmt4(n) == Fmt2(n \div 100) \o Fmt2(n % 100)

(***************************************************************************)
(* Dates.                                                                  *)
(***************************************************************************)
IsLeap(y) == ((y % 4) = 0 /\ (y % 100) # 0) \/ (y % 400) = 0

DaysInMonth(y, m) ==
  IF m = 2 THEN (IF IsLeap(y) THEN 29 ELSE 28)
  ELSE IF m \in {4, 6, 9, 11} THEN 30 ELSE 31

IsoYear(iso) == CastInt(SUBSTR(iso, 1, 4))
IsoMonth(iso) == CastInt(SUBSTR(iso, 6, 2))
IsoDay(iso) == CastInt(SUBSTR(iso, 9, 2))

\* The text has the shape YYYY-MM-DD.
IsoShaped(iso) ==
  /\ Len(iso) = 10
  /\ Ch(iso, 5) = "-" /\ Ch(iso, 8) = "-"
  /\ AllDigits(SUBSTR(iso, 1, 4)) /\ AllDigits(SUBSTR(iso, 6, 2)) /\ AllDigits(SUBSTR(iso, 9, 2))

\* SQLite date(x): the date itself for a valid YYYY-MM-DD (days 29..31 of a
\* shorter month roll over into the next month), NULL otherwise.
SqlDateYMD(iso, y, m, d) ==
  IF m \notin 1..12 \/ d \notin 1..31 THEN NULL
  ELSE IF d <= DaysInMonth(y, m) THEN iso
  ELSE IF m = 12 THEN Fmt4(y + 1) \o "-01-" \o Fmt2(d - 31)
  ELSE Fmt4(y) \o "-" \o Fmt2(m + 1) \o "-" \o Fmt2(d - DaysInMonth(y, m))

SqlDate(iso) ==
  IF iso = NULL THEN NULL
  ELSE IF ~IsoShaped(iso) THEN NULL
  ELSE SqlDateYMD(iso, IsoYear(iso), IsoMonth(iso), IsoDay(iso))

\* SQL comparisons of two date(...) values da, db: TRUE only when the SQL
\* result is true (a NULL operand makes the comparison NULL, which no WHEN
\* takes).
LtNotNull(da, db) == da # NULL /\ db # NULL /\ StrLess(da, db)
GeNotNull(da, db) == da # NULL /\ db # NULL /\ StrLeq(db, da)

DateLt(a, b) == LtNotNull(SqlDate(a), SqlDate(b))
DateGe(a, b) == GeNotNull(SqlDate(a), SqlDate(b))
DateGt(a, b) == DateLt(b, a)

\* Days since 0000-03-01 of a valid civil date (for differences in days).
DayNumberShifted(yy, mm, d) ==
  (365 * yy) + (yy \div 4) - (yy \div 100) + (yy \div 400) + (((153 * mm) + 2) \div 5) + d - 1

DayNumber(y, m, d) ==
  DayNumberShifted(IF m <= 2 THEN y - 1 ELSE y, IF m <= 2 THEN m + 9 ELSE m - 3, d)

IsoDayNumber(iso) == DayNumber(IsoYear(iso), IsoMonth(iso), IsoDay(iso))

\* The day after a valid ISO date.
NextDayYMD(y, m, d) ==
  IF d < DaysInMonth(y, m) THEN Fmt4(y) \o "-" \o Fmt2(m) \o "-" \o Fmt2(d + 1)
  ELSE IF m < 12 THEN Fmt4(y) \o "-" \o Fmt2(m + 1) \o "-01"
  ELSE Fmt4(y + 1) \o "-01-01"

NextDay(iso) == NextDayYMD(IsoYear(iso), IsoMonth(iso), IsoDay(iso))

\* The CASE expression every builder uses: MM/DD/YYYY text -> YYYY-MM-DD by
\* substrings, anything of another shape -> NULL.
_to_iso_case(raw) ==
  IF raw # NULL /\ Len(raw) = 10 /\ Ch(raw, 3) = "/" /\ Ch(raw, 6) = "/"
  THEN SUBSTR(raw, 7, 4) \o "-" \o SUBSTR(raw, 1, 2) \o "-" \o SUBSTR(raw, 4, 2)
  ELSE NULL

\* ISO text back to MM/DD/YYYY, '' for NULL.
_iso_to_mdy(iso) ==
  IF iso # NULL
  THEN SUBSTR(iso, 6, 2) \o "/" \o SUBSTR(iso, 9, 2) \o "/" \o SUBSTR(iso, 1, 4)
  ELSE ""

(***************************************************************************)
(* The database.  Upstream relations are sequences of rows in rowid order; *)
(* the derived relations have "Order" INTEGER PRIMARY KEY and are functions *)
(* from the orders that have a row to that row.                            *)
(***************************************************************************)
VARIABLES
  order_tracking_list,   \* set of tracked orders ("Order" INTEGER PRIMARY KEY)
  mpp_data,              \* ProjectSnapshot rows
  sap_data,              \* TaskEvent rows
  epw_data,              \* environmental / e-permit snapshot rows
  land_data,             \* land snapshot rows
  manual_tracker,        \* ManualOverride rows
  joint_pole_data,       \* joint pole intent rows
  today,                 \* datetime.now().date().isoformat()
  sap_tracker,           \* TaskStatusProfile
  open_dependencies,     \* DependencyGate
  permit_tracker,
  miscTSK_tracker,
  faa_tracker,
  environment_tracker,
  land_tracker,
  joint_pole_tracker,
  land_tracker_exists,   \* the land_tracker table has been created
  lastOp,                \* the operation that produced this state
  runs,                  \* consecutive rebuilds since the upstream data or the date changed
  before,                \* the derived relations as they were when the last rebuild started
  dayMoves,              \* how many times the date has moved
  ingests,               \* how many MPP snapshots have been loaded since the start
  missing,               \* the upstream tables that do not exist in the database
  abortAt,               \* where the last rebuild stopped, NoAbort when it completed
  stops,                 \* how many rebuilds have stopped before their end
  saves,                 \* how many times manual inputs have been saved
  schema                 \* the columns of land_tracker and permit_tracker, and their __new tables

upstream == <<order_tracking_list, mpp_data, sap_data, epw_data, land_data,
              manual_tracker, joint_pole_data>>

trackers == <<permit_tracker, miscTSK_tracker, faa_tracker, environment_tracker,
              land_tracker, joint_pole_tracker>>

derived == <<sap_tracker, open_dependencies, permit_tracker, miscTSK_tracker, faa_tracker,
             environment_tracker, land_tracker, joint_pole_tracker, land_tracker_exists,
             schema>>

vars == <<order_tracking_list, mpp_data, sap_data, epw_data, land_data, manual_tracker,
          joint_pole_data, today, sap_tracker, open_dependencies, permit_tracker,
          miscTSK_tracker, faa_tracker, environment_tracker, land_tracker,
          joint_pole_tracker, land_tracker_exists, lastOp, runs, before, dayMoves,
          ingests, missing, abortAt, stops, saves, schema>>

\* A rebuild that ran to its end.
NoAbort == [stage |-> 0, cut |-> 0]

\* The empty keyed table.
NoRows == [o \in {} |-> NULL]

\* The rows of a relation (a sequence) whose key column `col` equals o, in rowid order.
RECURSIVE SelectSeq2(_, _, _)
SelectSeq2(rel, col, o) ==
  IF rel = <<>> THEN <<>>
  ELSE IF Head(rel)[col] = o THEN <<Head(rel)>> \o SelectSeq2(Tail(rel), col, o)
  ELSE SelectSeq2(Tail(rel), col, o)

RowsOf(rel, col, o) == SelectSeq2(rel, col, o)

\* INSERT OR REPLACE of the rows of a sequence, in order, into a keyed table.
RECURSIVE InsertOrReplace(_, _)
InsertOrReplace(table, rows) ==
  IF rows = <<>> THEN table
  ELSE InsertOrReplace((Head(rows).Order :> Head(rows)) @@ table, Tail(rows))

\* No DELETE: the rows of every order stay.
DeleteNotIn_Keep(table, keep) == table

\* DELETE FROM table WHERE "Order" NOT IN keep.
DeleteNotIn(table, keep) == [o \in DOMAIN table \cap keep |-> table[o]]

\* MAX over a set of texts in BINARY collation; NULL for the empty set.
StrMax(S) == IF S = {} THEN NULL ELSE CHOOSE m \in S : \A x \in S : StrLeq(x, m)

(***************************************************************************)
(* Task-Status Pivot (sap_tracker).                                        *)
(***************************************************************************)
PENDING_STATUSES == {"ESTS", "UNSE", "ADER", "APPR"}
AP_ALLOWED_STATUSES == {"PEND", "UNSC", "CONS"}

\* DESIRED_ORDER without "Order" and "Primary Status".
StatusCodesActd == {"SP56", "RP56", "SP57", "RP57"}
StatusCodesInpr == {"DS42", "PC20", "DS76", "PC24", "DS11", "PC21"}
StatusCodes == StatusCodesActd \cup StatusCodesInpr
AncillaryCodes == {"AP10", "AP25", "DS28", "DS73"}
Codes == StatusCodes \cup AncillaryCodes

\* mpp_first of the seeding statement: one "Primary Status" per order of
\* mpp_data (GROUP BY with a bare column: SQLite takes it from one row of
\* the group; mpp_data holds at most one row per order here).
mpp_first(o) ==
  LET rows == RowsOf(mpp_data, "Order", o)
  IN  IF rows = <<>> THEN NULL ELSE rows[1].PrimaryStatus

\* Seed Order + Primary Status: INSERT OR REPLACE replaces the whole row, so
\* every code column of a tracked order is NULL afterwards.
SeedRow(o) ==
  [c \in Codes \cup {"Order", "Primary Status"} |->
     IF c = "Order" THEN o ELSE IF c = "Primary Status" THEN mpp_first(o) ELSE NULL]

SeedSapTracker(st) ==
  [o \in DOMAIN st \cup order_tracking_list |->
     IF o \in order_tracking_list THEN SeedRow(o) ELSE st[o]]

\* __codes_pivot: per tracked order and code, MAX of the non-empty statuses
\* of the order's events of the code, and whether any such event exists.
EventsIn(sap, o, c) == {i \in 1..Len(sap) : sap[i].Order = o /\ sap[i].Code = c}

EventsOf(o, c) == EventsIn(sap_data, o, c)

tusIn_LastRow(sap, o, c) == IF EventsIn(sap, o, c) = {} THEN NULL ELSE NULLIF(sap[CHOOSE i \in EventsIn(sap, o, c) : \A j \in EventsIn(sap, o, c) : j <= i].TaskUsrStatus, "")
tusIn(sap, o, c) == StrMax({NULLIF(sap[i].TaskUsrStatus, "") : i \in EventsIn(sap, o, c)} \ {NULL})

tus(o, c) == tusIn(sap_data, o, c)

has(o, c) == EventsOf(o, c) # {}

\* __codes_final: the value of one code column for primary status ps, from
\* the has_<code> flag h and the tus_<code> value t of __codes_pivot.
StatusValue_OneDefault(ps, c, h, t) == IF UPPER(COALESCE(ps, "")) \in PENDING_STATUSES THEN "Pending Estimation" ELSE IF h THEN COALESCE(t, "INPR") ELSE "NOTN"
StatusValue(ps, c, h, t) ==
  IF UPPER(COALESCE(ps, "")) \in PENDING_STATUSES THEN "Pending Estimation"
  ELSE IF h THEN COALESCE(t, IF c \in StatusCodesActd THEN "ACTD" ELSE "INPR")
  ELSE "NOTN"

StatusCell(ps, o, c) == StatusValue(ps, c, has(o, c), tus(o, c))

AncillaryValue_Ungated(ps, h, t) == IF h /\ UPPER(COALESCE(t, "")) = "INPR" THEN "Clear Task" ELSE "-"
AncillaryValue(ps, h, t) ==
  IF UPPER(COALESCE(ps, "")) \in AP_ALLOWED_STATUSES
  THEN IF h
       THEN (IF UPPER(COALESCE(t, "")) = "INPR" THEN "Clear Task" ELSE "-")
       ELSE "-"
  ELSE "-"

AncillaryCell(ps, o, c) == AncillaryValue(ps, has(o, c), tus(o, c))

codes_final(ps, o, c) ==
  IF c \in StatusCodes THEN StatusCell(ps, o, c) ELSE AncillaryCell(ps, o, c)

\* The UPDATE of one row: col = COALESCE(f.col, sap_tracker.col).
UpdatedRow(o, row) ==
  [c \in DOMAIN row |->
     IF c \in Codes THEN COALESCE(codes_final(row["Primary Status"], o, c), row[c]) ELSE row[c]]

\* update_codes_batch: the single-pass UPDATE of the rows that have a match
\* in __codes_final (the tracked orders); st is the seeded sap_tracker.
update_codes_batch(st) ==
  [o \in DOMAIN st |-> IF o \in order_tracking_list THEN UpdatedRow(o, st[o]) ELSE st[o]]

(***************************************************************************)
(* Gate Engine (open_dependencies).                                        *)
(***************************************************************************)
AP_ALLOWED == {"PEND", "UNSC", "CONS"}

Domains == <<"Permit", "Land", "FAA", "Environment", "Joint Pole", "MiscTSK">>

DomainSet == {Domains[i] : i \in 1..Len(Domains)}

\* The smallest element of a set of row numbers, 0 for the empty set.
MinOrZero(S) == IF S = {} THEN 0 ELSE CHOOSE i \in S : \A j \in S : i <= j

\* The row of a relation with the smallest rowid among those of the order
\* (rid = MIN(rid)), as an index; 0 when the order has no row.
MinRid(rel, col, o) == MinOrZero({i \in 1..Len(rel) : rel[i][col] = o})

\* A column of row i of a relation, NULL for the all-NULL row 0 that a LEFT
\* JOIN yields without a match.
Cell(rel, i, c) == IF i = 0 THEN NULL ELSE rel[i][c]

\* __epw_norm and __mpp_norm.
epw_iso(o) == _to_iso_case(Cell(epw_data, MinRid(epw_data, "OrderNumber", o), "EPWExpirationDate"))

mpp_iso(o) == _to_iso_case(Cell(mpp_data, MinRid(mpp_data, "Order", o), "PermitExpDate"))

\* __land_one_per_order: ORDER BY (created_iso IS NOT NULL) DESC,
\* created_iso DESC, rid ASC LIMIT 1.  Row i with created_iso ci sorts
\* before row j with created_iso cj.
LandBefore(ci, cj, i, j) ==
  \/ ci # NULL /\ cj = NULL
  \/ ci # NULL /\ cj # NULL /\ StrLess(cj, ci)
  \/ ci = cj /\ i < j

LandCreated(i) == _to_iso_case(land_data[i].PermitCreatedDate)

FirstLand(S) ==
  IF S = {} THEN 0
  ELSE CHOOSE i \in S : \A j \in S \ {i} : LandBefore(LandCreated(i), LandCreated(j), i, j)

LandPicked(o) == FirstLand({i \in 1..Len(land_data) : land_data[i].Order = o})

land_iso(o) == _to_iso_case(Cell(land_data, LandPicked(o), "PermitExpiration"))

\* permit_exp_iso: the later of the two ISO texts, by text comparison.
LaterIso(e, m) ==
  IF e # NULL /\ m # NULL THEN (IF StrLeq(m, e) THEN e ELSE m) ELSE COALESCE(e, m)

permit_exp_iso(o) == LaterIso(epw_iso(o), mpp_iso(o))

\* A column of the LEFT JOINed row of a keyed table, NULL without a row.
Col(table, o, c) == IF o \in DOMAIN table THEN table[o][c] ELSE NULL

\* A normalised profile cell of the src CTE.
Norm(st, o, c) == UPPER(TRIM(COALESCE(Col(st, o, c), "")))

\* lt."Action" of the LEFT JOINed land_tracker, NULL when the table does not exist.
lt_action(lt, lt_exists, o) == IF lt_exists THEN Col(lt, o, "Action") ELSE NULL

\* The row of the src CTE of a tracked order.
Src(st, lt, lt_exists, o) ==
  [order |-> o,
   ps |-> Norm(st, o, "Primary Status"),
   sp56 |-> Norm(st, o, "SP56"), rp56 |-> Norm(st, o, "RP56"),
   sp57 |-> Norm(st, o, "SP57"), rp57 |-> Norm(st, o, "RP57"),
   pc20 |-> Norm(st, o, "PC20"), ds76 |-> Norm(st, o, "DS76"),
   pc24 |-> Norm(st, o, "PC24"), pc21 |-> Norm(st, o, "PC21"),
   ap10 |-> Norm(st, o, "AP10"), ap25 |-> Norm(st, o, "AP25"),
   ds28 |-> Norm(st, o, "DS28"), ds73 |-> Norm(st, o, "DS73"),
   permit_exp_iso |-> permit_exp_iso(o),
   land_iso |-> land_iso(o),
   lt_exists |-> lt_exists,
   lt_action |-> TRIM(lt_action(lt, lt_exists, o))]

\* The Permit gate with an expiration on today's date counted as past.
PermitGate_ExpiresToday(s) ==
  IF s.ps \notin AP_ALLOWED THEN "Closed"
  ELSE IF \/ s.sp56 \in {"INPR", "ACTD"}
          \/ s.rp56 \in {"INPR", "INPT", "ACTD"}
          \/ s.rp56 = "COMP" /\ (s.permit_exp_iso = NULL \/ ~DateGt(s.permit_exp_iso, today))
       THEN "Pending" ELSE "Closed"

PermitGate(s) ==
  IF s.ps \notin AP_ALLOWED THEN "Closed"
  ELSE IF \/ s.sp56 \in {"INPR", "ACTD"}
          \/ s.rp56 \in {"INPR", "INPT", "ACTD"}
          \/ s.rp56 = "COMP" /\ (s.permit_exp_iso = NULL \/ DateLt(s.permit_exp_iso, today))
       THEN "Pending" ELSE "Closed"

\* The Land gate without the short-circuit on the Land tracker's Action.
LandGate_NoFeedback(s) ==
  IF s.ps \notin AP_ALLOWED THEN "Closed"
  ELSE IF \/ s.sp57 \in {"INPR", "ACTD"}
          \/ s.rp57 \in {"INPR", "INPT", "ACTD"}
          \/ s.rp57 = "COMP" /\ (s.land_iso = NULL \/ DateLt(s.land_iso, today))
       THEN "Pending" ELSE "Closed"

LandGate(s) ==
  IF s.ps \notin AP_ALLOWED THEN "Closed"
  ELSE IF s.lt_exists /\ s.lt_action = "Review complete. No permit needed." THEN "Closed"
  ELSE IF s.lt_exists /\ s.lt_action = "Permit not required." THEN "Closed"
  ELSE IF \/ s.sp57 \in {"INPR", "ACTD"}
          \/ s.rp57 \in {"INPR", "INPT", "ACTD"}
          \/ s.rp57 = "COMP" /\ (s.land_iso = NULL \/ DateLt(s.land_iso, today))
       THEN "Pending" ELSE "Closed"

\* The FAA gate looking at PC24 alone.
FAAGate_OnlyPC24(s) ==
  IF s.ps \notin AP_ALLOWED THEN "Closed"
  ELSE IF s.pc24 = "INPR" THEN "Pending" ELSE "Closed"

FAAGate(s) ==
  IF s.ps \notin AP_ALLOWED THEN "Closed"
  ELSE IF s.pc24 = "INPR" \/ s.ds76 = "INPR" THEN "Pending" ELSE "Closed"

EnvironmentGate(s) ==
  IF s.ps \notin AP_ALLOWED THEN "Closed"
  ELSE IF s.pc21 = "INPR" THEN "Pending" ELSE "Closed"

JointPoleGate(s) ==
  IF s.ps \notin AP_ALLOWED THEN "Closed"
  ELSE IF s.pc20 = "INPR" THEN "Pending" ELSE "Closed"

\* The MiscTSK gate open to every allowed primary status.
MiscTSKGate_Allowed(s) ==
  IF s.ps \notin AP_ALLOWED THEN "Closed"
  ELSE IF "CLEAR TASK" \in {s.ap10, s.ap25, s.ds28, s.ds73} THEN "Pending" ELSE "Closed"

MiscTSKGate(s) ==
  IF s.ps # "PEND" THEN "Closed"
  ELSE IF "CLEAR TASK" \in {s.ap10, s.ap25, s.ds28, s.ds73} THEN "Pending" ELSE "Closed"

\* One row of __open_dep_final as INSERT OR REPLACE stores it: the two
\* columns the statement does not name are NULL.
open_dep_final(s) ==
  ("Order" :> s.order) @@ ("Permit" :> PermitGate(s)) @@ ("Land" :> LandGate(s))
    @@ ("FAA" :> FAAGate(s)) @@ ("Environment" :> EnvironmentGate(s))
    @@ ("Joint Pole" :> JointPoleGate(s)) @@ ("MiscTSK" :> MiscTSKGate(s))
    @@ ("Open Dependencies" :> NULL) @@ ("Stage of Job" :> NULL)

\* The concatenation of ' <domain>' for the Pending gates, in column order.
RECURSIVE PendingConcat(_, _)
PendingConcat(row, i) ==
  IF i > Len(Domains) THEN ""
  ELSE (IF row[Domains[i]] = "Pending" THEN " " \o Domains[i] ELSE "") \o PendingConcat(row, i + 1)

\* CASE WHEN <concat> = '' THEN 'None' ELSE TRIM(SUBSTR(<concat>, 2)) END.
\* The aggregate without the removal of the leading separator.
NoneOrTrimmed_Whole(concat) == IF concat = "" THEN "None" ELSE concat

NoneOrTrimmed(concat) == IF concat = "" THEN "None" ELSE TRIM(SUBSTR_from(concat, 2))

OpenDependenciesText(row) == NoneOrTrimmed(PendingConcat(row, 1))

\* ns of the Stage of Job subquery: sap_tracker LEFT JOIN mpp_data ... LIMIT 1.
NotifStatusOf(o) == Cell(mpp_data, MinRid(mpp_data, "Order", o), "NotifStatus")

\* The Stage of Job rules with Estimating ahead of Cancelled/Deferred.
StageCase_EstimatingFirst(ps, ns, od_open) ==
  IF ps \in {"UNSE", "ESTS", "ADER", "APPR"} THEN "Estimating."
  ELSE IF ps \in {"CNCL", "ESTS", "DEFR", "APPR"} /\ ns = "CNCL" THEN "Cancelled/Deferred."
  ELSE IF ps \in {"UNSC", "CONS"} /\ od_open = "None" THEN "Ready for Construction."
  ELSE IF ps \in {"UNSC", "CONS"} /\ od_open # "None" THEN "Dependencies not met. Return to PEND."
  ELSE IF ps = "PEND" /\ od_open = "None" THEN "Dependencies met."
  ELSE IF ps = "PEND" /\ od_open # "None" THEN "Pending dependencies."
  ELSE IF ps \in {"DCNL", "PROD", "DOCC", "FICL", "CLSD", "MAPP"} THEN "Construction Complete."
  ELSE "Unknown stage of job."

StageCase(ps, ns, od_open) ==
  IF ps \in {"CNCL", "ESTS", "DEFR", "APPR"} /\ ns = "CNCL" THEN "Cancelled/Deferred."
  ELSE IF ps \in {"UNSC", "CONS"} /\ od_open = "None" THEN "Ready for Construction."
  ELSE IF ps \in {"UNSC", "CONS"} /\ od_open # "None" THEN "Dependencies not met. Return to PEND."
  ELSE IF ps = "PEND" /\ od_open = "None" THEN "Dependencies met."
  ELSE IF ps = "PEND" /\ od_open # "None" THEN "Pending dependencies."
  ELSE IF ps \in {"UNSE", "ESTS", "ADER", "APPR"} THEN "Estimating."
  ELSE IF ps \in {"DCNL", "PROD", "DOCC", "FICL", "CLSD", "MAPP"} THEN "Construction Complete."
  ELSE "Unknown stage of job."

StageOfJob(st, o, od_open) ==
  IF o \notin DOMAIN st THEN "Unknown stage of job."
  ELSE StageCase(Norm(st, o, "Primary Status"),
                 UPPER(TRIM(COALESCE(NotifStatusOf(o), ""))),
                 COALESCE(od_open, ""))

\* The two UPDATEs over every row of open_dependencies, on one row.
SetOpenDependencies(row) == [row EXCEPT !["Open Dependencies"] = OpenDependenciesText(row)]

SetStageOfJob(st, row) ==
  [row EXCEPT !["Stage of Job"] = StageOfJob(st, row["Order"], row["Open Dependencies"])]

\* The upsert restricted to the tracked orders that mpp_data knows.
build_open_dependencies_Known(st, od, lt, lt_exists) ==
  [o \in DOMAIN od \cup {t \in order_tracking_list : Col(st, t, "Primary Status") # NULL} |->
     SetStageOfJob(st, SetOpenDependencies(
       IF o \in order_tracking_list THEN open_dep_final(Src(st, lt, lt_exists, o)) ELSE od[o]))]

\* build_open_dependencies: upsert of the gate columns for the tracked
\* orders, then the two UPDATEs over every row of open_dependencies.
build_open_dependencies(st, od, lt, lt_exists) ==
  [o \in DOMAIN od \cup order_tracking_list |->
     SetStageOfJob(st, SetOpenDependencies(
       IF o \in order_tracking_list THEN open_dep_final(Src(st, lt, lt_exists, o)) ELSE od[o]))]

(***************************************************************************)
(* Helpers of the tracker builders.                                        *)
(***************************************************************************)
\* The orders of a set in ascending order (a scan of an INTEGER PRIMARY KEY
\* table, or of a temp table filled from one, visits them in this order).
RECURSIVE Ascending(_)
AscendingFrom(S, m) == <<m>> \o Ascending(S \ {m})

Ascending(S) ==
  IF S = {} THEN <<>> ELSE AscendingFrom(S, CHOOSE x \in S : \A y \in S : x <= y)

\* The rows f[k] (sequences) of the keys, concatenated in key order.
RECURSIVE Flatten(_, _)
Flatten(f, keys) == IF keys = <<>> THEN <<>> ELSE f[Head(keys)] \o Flatten(f, Tail(keys))

\* The orders whose gate of the domain is Pending in open_dependencies.
PendingOrders(od, domain) == {o \in DOMAIN od : od[o][domain] = "Pending"}

\* The indexes of the rows of a relation that join an order; <<0>> stands
\* for the all-NULL row a LEFT JOIN yields without a match.
OrNullRow(S) == IF S = {} THEN <<0>> ELSE Ascending(S)

Matches(rel, col, o) == OrNullRow({i \in 1..Len(rel) : rel[i][col] = o})

\* The cell of an INNER JOINed sap_tracker row, normalised as in the src CTEs.
SapCell(st, o, c) == IF o \in DOMAIN st THEN Norm(st, o, c) ELSE NULL

\* DELETE the rows of orders outside the final set, then INSERT OR REPLACE
\* of the final rows in their order.
ReplaceRows(table, final) ==
  InsertOrReplace(DeleteNotIn(table, {final[i].Order : i \in 1..Len(final)}), final)

(***************************************************************************)
(* Permit tracker.  The pass-through columns "CLICK End Date" and "LEAPS    *)
(* Cycle Time" are copies of upstream cells and are left out.              *)
(***************************************************************************)
SubmitDaysLimit == 45

\* The constant bound in place of today in the 'Not Created' rule.
NotCreatedWpdFloor == "2026-01-01"

epermit_status(epw_status, epermit_update) ==
  IF TRIM(UPPER(COALESCE(epw_status, ""))) = "NOT ACTIVATED" THEN "Not Needed"
  ELSE IF COALESCE(TRIM(epermit_update), "") = "" THEN "Not Created"
  ELSE IF INSTR(epermit_update, ";") > 0
       THEN TRIM(SUBSTR_from(epermit_update, INSTR(epermit_update, ";") + 1))
  ELSE TRIM(epermit_update)

final_exp_iso(epw_exp, mpp_exp) ==
  IF epw_exp = NULL /\ mpp_exp = NULL THEN NULL
  ELSE IF epw_exp = NULL THEN mpp_exp
  ELSE IF mpp_exp = NULL THEN epw_exp
  ELSE IF DateGe(epw_exp, mpp_exp) THEN epw_exp
  ELSE mpp_exp

SubmitDaysInt(submit_days) == CastInt(COALESCE(NULLIF(TRIM(submit_days), ""), "0"))

\* The Permit rules with the e-permit status rules ahead of the expiration rules.
PermitAction_StatusFirst(es, exp, click, wpd, submit_days) ==
  IF es = "Not Needed" THEN "Permit not needed. Please close SP/RP56."
  ELSE IF es = "In Progress" /\ wpd # NULL /\ DateLt(wpd, today)
       THEN "In progress but past WPD. Please escalate."
  ELSE IF es = "In Progress" /\ (wpd = NULL \/ DateGe(wpd, today)) THEN "In progress."
  ELSE IF exp # NULL /\ DateGe(exp, today)
       THEN "Please confirm permit is approved and complete SAP task."
  ELSE IF exp # NULL /\ DateLt(exp, today) /\ click = NULL
       THEN "Please provide CLICK Date for extension."
  ELSE IF exp # NULL /\ DateLt(exp, today) THEN "Please request for extension."
  ELSE "check"

PermitAction(es, exp, click, wpd, submit_days) ==
  IF es = "Not Needed" THEN "Permit not needed. Please close SP/RP56."
  ELSE IF exp # NULL /\ DateGe(exp, today)
       THEN "Please confirm permit is approved and complete SAP task."
  ELSE IF exp # NULL /\ DateLt(exp, today) /\ click = NULL
       THEN "Please provide CLICK Date for extension."
  ELSE IF exp # NULL /\ DateLt(exp, today) /\ DateGe(click, today)
       THEN "Please request for extension."
  ELSE IF exp # NULL /\ DateLt(exp, today) /\ click # NULL /\ DateLt(click, today)
       THEN "Please request for extension."
  ELSE IF es = "In Progress" /\ wpd # NULL /\ DateLt(wpd, today)
       THEN "In progress but past WPD. Please escalate."
  ELSE IF es = "In Progress" /\ (wpd = NULL \/ DateGe(wpd, today)) THEN "In progress."
  ELSE IF es = "Not Created" /\ wpd # NULL /\ DateGe(wpd, NotCreatedWpdFloor)
       THEN "Permit not created. Need current WPD."
  ELSE IF es = "Not Created" /\ wpd # NULL /\ DateLt(wpd, today)
       THEN "Not created and past WPD. Please escalate."
  ELSE IF es = "Submitted" /\ SubmitDaysInt(submit_days) > SubmitDaysLimit
       THEN "Submitted over 45 days. Please provide update."
  ELSE IF es = "Submitted" /\ SubmitDaysInt(submit_days) <= SubmitDaysLimit THEN "In progress."
  ELSE "check"

\* The final SELECT of __permit_tracker_final over the columns of the base
\* row: E Permit Status es, final expiration exp, WPD, CLICK start (ISO).
PermitFinalRow(st, o, m, es, exp, wpd, click, days) ==
  ("Order" :> o)
    @@ ("Notification Status" :> Cell(mpp_data, m, "NotifStatus"))
    @@ ("SAP Status" :> Cell(mpp_data, m, "PrimaryStatus"))
    @@ ("SP56 Status" :> SapCell(st, o, "SP56"))
    @@ ("RP56 Status" :> SapCell(st, o, "RP56"))
    @@ ("E Permit Status" :> es)
    @@ ("Submit Days" :> days)
    @@ ("Permit Expiration Date" :> _iso_to_mdy(exp))
    @@ ("Work Plan Date" :> _iso_to_mdy(wpd))
    @@ ("CLICK Start Date" :> _iso_to_mdy(click))
    @@ ("Action" :> PermitAction(es, exp, click, wpd, days))

\* One row of __permit_tracker_final: order o joined to EPW row e (its
\* first row, 0 when none) and MPP row m.
PermitRow(st, o, e, m) ==
  PermitFinalRow(st, o, m,
    epermit_status(Cell(epw_data, e, "EPWStatus"), Cell(epw_data, e, "EpermitUpdate")),
    final_exp_iso(_to_iso_case(Cell(epw_data, e, "EPWExpirationDate")),
                  _to_iso_case(Cell(mpp_data, m, "PermitExpDate"))),
    _to_iso_case(Cell(mpp_data, m, "WorkPlanDate")),
    _to_iso_case(Cell(mpp_data, m, "ClickStartDate")),
    Cell(epw_data, e, "SubmitDays"))

PermitRowsOf(st, o, e, ms) == [k \in 1..Len(ms) |-> PermitRow(st, o, e, ms[k])]

permit_tracker_final(st, od) ==
  Flatten([o \in PendingOrders(od, "Permit") |->
             PermitRowsOf(st, o, MinRid(epw_data, "OrderNumber", o), Matches(mpp_data, "Order", o))],
          Ascending(PendingOrders(od, "Permit")))

build_permit_tracker(st, od, pt) == ReplaceRows(pt, permit_tracker_final(st, od))

(***************************************************************************)
(* MiscTSK and FAA trackers: display columns only.                         *)
(***************************************************************************)
MiscTskRow(st, o, m) ==
  ("Order" :> o)
    @@ ("Notification Status" :> COALESCE(Cell(mpp_data, m, "NotifStatus"), ""))
    @@ ("SAP Status" :> COALESCE(Cell(mpp_data, m, "PrimaryStatus"), ""))
    @@ ("AP10" :> COALESCE(Col(st, o, "AP10"), ""))
    @@ ("AP25" :> COALESCE(Col(st, o, "AP25"), ""))
    @@ ("DS28" :> COALESCE(Col(st, o, "DS28"), ""))
    @@ ("DS73" :> COALESCE(Col(st, o, "DS73"), ""))

MiscTskRowsOf(st, o, ms) == [k \in 1..Len(ms) |-> MiscTskRow(st, o, ms[k])]

mt_final(st, od) ==
  Flatten([o \in PendingOrders(od, "MiscTSK") |->
             MiscTskRowsOf(st, o, Matches(mpp_data, "Order", o))],
          Ascending(PendingOrders(od, "MiscTSK")))

build_misctsk_tracker(st, od, mt) == ReplaceRows(mt, mt_final(st, od))

FaaRow(st, o, m) ==
  ("Order" :> o)
    @@ ("Notification Status" :> COALESCE(Cell(mpp_data, m, "NotifStatus"), ""))
    @@ ("SAP Status" :> COALESCE(Cell(mpp_data, m, "PrimaryStatus"), ""))
    @@ ("DS76" :> COALESCE(Col(st, o, "DS76"), ""))
    @@ ("PC24" :> COALESCE(Col(st, o, "PC24"), ""))

FaaRowsOf(st, o, ms) == [k \in 1..Len(ms) |-> FaaRow(st, o, ms[k])]

faa_final(st, od) ==
  Flatten([o \in PendingOrders(od, "FAA") |-> FaaRowsOf(st, o, Matches(mpp_data, "Order", o))],
          Ascending(PendingOrders(od, "FAA")))

build_faa_tracker(st, od, ft) == ReplaceRows(ft, faa_final(st, od))

(***************************************************************************)
(* Free-text dates of the Environment and Joint Pole builders.             *)
(***************************************************************************)
IsSep(c) == c = "/" \/ c = "-"

RECURSIVE SepFrom(_, _)
SepFrom(t, i) == IF i > Len(t) THEN 0 ELSE IF IsSep(Ch(t, i)) THEN i ELSE SepFrom(t, i + 1)

\* date(yyyy, mm, dd).isoformat(), NULL when the constructor raises.
_to_iso(mm, dd, yyyy) ==
  IF yyyy >= 1 /\ mm \in 1..12 /\ dd >= 1 /\ dd <= DaysInMonth(yyyy, mm)
  THEN Fmt4(yyyy) \o "-" \o Fmt2(mm) \o "-" \o Fmt2(dd)
  ELSE NULL

\* The two expressions on the three fields a, b, c of a text and its two
\* separators s1, s2: M/D/YYYY or M-D-YYYY (1 or 2 digits, either
\* separator), else YYYY-M-D.
ParseFields(a, b, c, s1, s2) ==
  IF ~(AllDigits(a) /\ AllDigits(b) /\ AllDigits(c)) THEN NULL
  ELSE IF Len(a) \in {1, 2} /\ Len(b) \in {1, 2} /\ Len(c) = 4
       THEN _to_iso(CastInt(a), CastInt(b), CastInt(c))
  ELSE IF Len(a) = 4 /\ Len(b) \in {1, 2} /\ Len(c) \in {1, 2} /\ s1 = "-" /\ s2 = "-"
       THEN _to_iso(CastInt(b), CastInt(c), CastInt(a))
  ELSE NULL

ParseAtSecond(t, p1, p2) ==
  IF p2 = 0 THEN NULL
  ELSE ParseFields(SubSeq(t, 1, p1 - 1), SubSeq(t, p1 + 1, p2 - 1), SubSeq(t, p2 + 1, Len(t)),
                   Ch(t, p1), Ch(t, p2))

ParseAtFirst(t, p1) == IF p1 = 0 THEN NULL ELSE ParseAtSecond(t, p1, SepFrom(t, p1 + 1))

ParseTrimmed(t) == IF t = "" THEN NULL ELSE ParseAtFirst(t, SepFrom(t, 1))

\* _parse_to_iso / _parse_date_mdy_or_iso; the result as ISO text.
_parse_to_iso(text) == IF text = NULL \/ text = "" THEN NULL ELSE ParseTrimmed(TRIM(text))

\* The index triples of three joined relations in nested-loop order.
Triples(xs, ys, zs) ==
  [n \in 1..(Len(xs) * Len(ys) * Len(zs)) |->
     <<xs[((n - 1) \div (Len(ys) * Len(zs))) + 1],
       ys[(((n - 1) \div Len(zs)) % Len(ys)) + 1],
       zs[((n - 1) % Len(zs)) + 1]>>]

(***************************************************************************)
(* Environment tracker ("Enviro Update" is a copy of an upstream cell and   *)
(* is left out).                                                           *)
(***************************************************************************)
\* The three rules on the parsed anticipated out date.
EnvironmentCase(iso) ==
  IF iso = NULL THEN "Please provide anticipated out date."
  ELSE IF IsoDayNumber(iso) >= IsoDayNumber(today) THEN "In progress."
  ELSE "Past anticipated out date. Please provide update or close PC21."

EnvironmentAction(env_out_date_text) == EnvironmentCase(_parse_to_iso(env_out_date_text))

EnvironmentRow(st, o, m, ep, man) ==
  ("Order" :> o)
    @@ ("Notification Status" :> COALESCE(Cell(mpp_data, m, "NotifStatus"), ""))
    @@ ("SAP Status" :> COALESCE(Cell(mpp_data, m, "PrimaryStatus"), ""))
    @@ ("DS11" :> COALESCE(Col(st, o, "DS11"), ""))
    @@ ("PC21" :> COALESCE(Col(st, o, "PC21"), ""))
    @@ ("Environment Status" :> COALESCE(Cell(epw_data, ep, "EnvStatus"), ""))
    @@ ("Environment Anticipated Out Date" :>
          COALESCE(Cell(manual_tracker, man, "EnvAnticipatedOutDate"), ""))
    @@ ("Environment Notes" :> COALESCE(Cell(manual_tracker, man, "EnvNotes"), ""))
    @@ ("Action" :>
          EnvironmentAction(COALESCE(Cell(manual_tracker, man, "EnvAnticipatedOutDate"), "")))

EnvironmentRowsOf(st, o, js) ==
  [k \in 1..Len(js) |-> EnvironmentRow(st, o, js[k][1], js[k][2], js[k][3])]

env_final(st, od) ==
  Flatten([o \in PendingOrders(od, "Environment") |->
             EnvironmentRowsOf(st, o, Triples(Matches(mpp_data, "Order", o),
                                              Matches(epw_data, "OrderNumber", o),
                                              Matches(manual_tracker, "Order", o)))],
          Ascending(PendingOrders(od, "Environment")))

build_environment_tracker(st, od, et) == ReplaceRows(et, env_final(st, od))

(***************************************************************************)
(* Joint Pole tracker.  An absent joint_pole_data table and an empty one    *)
(* give the same rows.                                                     *)
(***************************************************************************)
WpdHorizonDays == 90
ReadyAgeDays == 7

RECURSIVE LowerStr(_)
LowerStr(s) == IF s = "" THEN "" ELSE LowChar(Ch(s, 1)) \o LowerStr(SubSeq(s, 2, Len(s)))

\* Python's `sub in s`.
Contains(s, sub) == \E i \in 1..(Len(s) - Len(sub) + 1) : SubSeq(s, i, i + Len(sub) - 1) = sub

\* A later row replaces the kept one when it has a "Last Chgd" date where
\* the kept one has none, or a strictly later one.
Later(dt_best, dt_new) ==
  \/ dt_best = NULL /\ dt_new # NULL
  \/ dt_best # NULL /\ dt_new # NULL /\ IsoDayNumber(dt_new) > IsoDayNumber(dt_best)

\* joint_best[o]: the first row unless a later row replaces it.
RECURSIVE JointBestFrom(_, _, _)
JointBestFrom(idx, k, best) ==
  IF k > Len(idx) THEN best
  ELSE JointBestFrom(idx, k + 1,
         IF Later(_parse_to_iso(joint_pole_data[best].LastChgd),
                  _parse_to_iso(joint_pole_data[idx[k]].LastChgd))
         THEN idx[k] ELSE best)

JointBestOf(idx) == IF idx = <<0>> THEN 0 ELSE JointBestFrom(idx, 2, idx[1])

joint_best(o) == JointBestOf(Matches(joint_pole_data, "OrderNo", o))

\* The rules on the lower-cased status and the parsed dates (day numbers).
JointPoleCase(pis, pis_lower, status_dt, due_dt, wpd_dt, now) ==
  IF pis = NULL \/ TRIM(pis) = "" THEN "Review."
  ELSE IF Contains(pis_lower, "draft") THEN "Intent in draft. Please review and provide update."
  ELSE IF Contains(pis_lower, "deleted") \/ Contains(pis_lower, "cancelled")
            \/ Contains(pis_lower, "canceled")
       THEN "Intent has been deleted/cancelled. Please review and complete task if joint pole not required."
  ELSE IF Contains(pis_lower, "estimator") /\ wpd_dt # NULL
       THEN (IF IsoDayNumber(wpd_dt) - now > WpdHorizonDays
             THEN "Pending estimating review. No action required."
             ELSE "Pending estimating review and WPD in less that 90 days. Please provide update.")
  ELSE IF Contains(pis_lower, "construction") THEN "Released to construction. Please complete PC20."
  ELSE IF Contains(pis_lower, "engineering") THEN "Estimation and joint pole attention needed."
  ELSE IF Contains(pis_lower, "sent to ou") /\ due_dt # NULL /\ IsoDayNumber(due_dt) < now
       THEN "OU days exceeded. Please complete PC20."
  ELSE IF Contains(pis_lower, "sent to ou") /\ due_dt # NULL /\ IsoDayNumber(due_dt) >= now
       THEN "Pending OU review."
  ELSE IF Contains(pis_lower, "ready") /\ status_dt # NULL
       THEN (IF now - IsoDayNumber(status_dt) > ReadyAgeDays
             THEN "Intent in ready to send status. Please send to OU for review."
             ELSE "Intent in ready to send status. Pending clerical review.")
  ELSE "check"

JointPoleAction(pis, status_date, due_by, wpd_text) ==
  JointPoleCase(pis, LowerStr(COALESCE(pis, "")), _parse_to_iso(status_date),
                _parse_to_iso(due_by), _parse_to_iso(wpd_text), IsoDayNumber(today))

\* The output row of order o joined to MPP row m and joint pole row j.
JointPoleOut(st, o, m, j) ==
  ("Order" :> o)
    @@ ("Notification Status" :> COALESCE(Cell(mpp_data, m, "NotifStatus"), ""))
    @@ ("SAP Status" :> COALESCE(Cell(mpp_data, m, "PrimaryStatus"), ""))
    @@ ("DS42" :> COALESCE(Col(st, o, "DS42"), ""))
    @@ ("PC20" :> COALESCE(Col(st, o, "PC20"), ""))
    @@ ("Primary Intent Status" :> Cell(joint_pole_data, j, "PrimaryIntentStatus"))
    @@ ("Status Date" :> Cell(joint_pole_data, j, "StatusDate"))
    @@ ("Due By" :> Cell(joint_pole_data, j, "DueBy"))
    @@ ("Action" :> JointPoleAction(Cell(joint_pole_data, j, "PrimaryIntentStatus"),
                                    Cell(joint_pole_data, j, "StatusDate"),
                                    Cell(joint_pole_data, j, "DueBy"),
                                    Cell(mpp_data, m, "WorkPlanDate")))

JointPoleRow(st, o, m) == JointPoleOut(st, o, m, joint_best(o))

JointPoleRowsOf(st, o, ms) == [k \in 1..Len(ms) |-> JointPoleRow(st, o, ms[k])]

jp_out(st, od) ==
  Flatten([o \in PendingOrders(od, "Joint Pole") |->
             JointPoleRowsOf(st, o, Matches(mpp_data, "Order", o))],
          Ascending(PendingOrders(od, "Joint Pole")))

\* DELETE ... NOT IN __jp_orders, then INSERT OR REPLACE of the rows.
build_joint_pole_tracker(st, od, jt) ==
  InsertOrReplace(DeleteNotIn(jt, PendingOrders(od, "Joint Pole")), jp_out(st, od))

(***************************************************************************)
(* Comment classification (comments_parser.py).  A regular expression is   *)
(* modelled by the phrases it accepts on lower-cased, single-spaced text:   *)
(* a pattern is a sequence of elements to be found one after the other      *)
(* (the '.*' of the expression), an element a set of literal phrases with   *)
(* the word boundaries (\b) the expression puts on its two ends.           *)
(***************************************************************************)
WordChars == "0123456789ABCDEFGHIJKLMNOPQRSTUVWXYZ_abcdefghijklmnopqrstuvwxyz"

WordCharSet == CharsOf(WordChars)

IsWordChar(t, i) == i >= 1 /\ i <= Len(t) /\ Ch(t, i) \in WordCharSet

\* \b between positions i-1 and i of t.
Boundary(t, i) == IsWordChar(t, i - 1) # IsWordChar(t, i)

W(lits) == [lits |-> lits, lb |-> TRUE, rb |-> TRUE]
Prefix(lits) == [lits |-> lits, lb |-> TRUE, rb |-> FALSE]

MatchAt(t, e, lit, i) ==
  /\ i + Len(lit) - 1 <= Len(t)
  /\ SubSeq(t, i, i + Len(lit) - 1) = lit
  /\ (e.lb => Boundary(t, i))
  /\ (e.rb => Boundary(t, i + Len(lit)))

\* The ends of the matches of literal lit of element e in t that start at
\* or after from.
EndsOf(t, e, lit, from) ==
  {i + Len(lit) - 1 : i \in {j \in from..(Len(t) - Len(lit) + 1) : MatchAt(t, e, lit, j)}}

\* The end of the match of element e in t that ends first, at or after from; 0 if none.
EarliestEnd(t, e, from) == MinOrZero(UNION {EndsOf(t, e, lit, from) : lit \in e.lits})

\* The elements k.. of a pattern are found one after the other from `from`.
RECURSIVE SearchFrom(_, _, _, _)
SearchAfter(t, pat, k, end) == end # 0 /\ SearchFrom(t, pat, k + 1, end + 1)

SearchFrom(t, pat, k, from) ==
  IF k > Len(pat) THEN TRUE ELSE SearchAfter(t, pat, k, EarliestEnd(t, pat[k], from))

\* rx.search(text) with re.IGNORECASE for one pattern / any pattern of a
\* list; t is the lower-cased text.
Search(pat, t) == SearchFrom(t, pat, 1, 1)
SearchAny(pats, t) == \E k \in 1..Len(pats) : Search(pats[k], t)

Sp == {"", " "}
RightOfWay == {"right" \o a \o "of" \o b \o "way" : a \in {"", "-", " "}, b \in {"", "-", " "}}
CalTrans == {"cal" \o a \o "trans" : a \in Sp}
PermitWords == {"permit", "permits", "permitted", "permitting"}
LandTasksDone == {"land task completed", "land tasks completed", "land task cleared",
                  "land tasks cleared"}

_DISQUALIFY ==
  << <<W({"to avoid permit"})>>,
     <<W({"if"}), W({"permit"}), W({"required"})>>,
     <<W({"may"}), W({"permit"}), W({"required"})>>,
     <<W({"will"}), W({"permit"}), W({"required"})>> >>

_POSITIVE_NO_PERMIT ==
  << <<W({"no additional land rights needed", "no additional land rights required"})>>,
     <<W({"no land rights needed", "no land rights required", "no land rights "})>>,
     <<W({"no land review required"})>>,
     <<W({"land review completed"})>>,
     <<W({"completed intake"}),
       W({"no additional land rights required", "no additional land rights needed"})>>,
     <<W({"no caltrans permit required", "no caltrans permit needed"})>>,
     <<W({"no permit needed"})>>,
     <<W({"no permit is needed"})>>,
     <<W({"facilities located outside of caltrans " \o r : r \in RightOfWay}),
       W({"no caltrans permit required"})>>,
     <<W({"no land needed"})>>,
     <<W({"no" \o a \o "ct" \o b \o c \o d \o "rr permit required" :
            a \in Sp, b \in Sp, c \in {"/", "or"}, d \in Sp})>>,
     <<W({"no" \o a \o ct \o b \o c \o "permit required" :
            a \in Sp, ct \in CalTrans, b \in {"", "/"} \cup {x \o "or" \o y \o "rr" : x \in Sp, y \in Sp},
            c \in Sp})>>,
     <<W({"work covered under the caltrans annual permit"})>>,
     <<W({"can be done under the annual"})>>,
     <<W(LandTasksDone)>>,
     <<W({"no land issues"})>>,
     <<Prefix(RightOfWay), W({"secures land rights"})>>,
     <<W({"secures land rights"})>>,
     <<W({"no new land rights"}), W({"ct", "caltrans"}), W({"permit needed"})>>,
     <<W({"replied to"}), W({"no caltrans permit needed", "no caltrans permit is needed"})>>,
     <<Prefix({"relinquish"}), W({"secures", "no additional land rights"})>>,
     <<W({"no" \o a \o ct \o " " \o pw \o " " \o is \o rn :
            a \in Sp, ct \in CalTrans, pw \in PermitWords, is \in {"", "is "},
            rn \in {"required", "needed"}})>>,
     <<W({"no permit required"})>>,
     <<W({"no railroad permit needed", "no railroad permit is needed"})>>,
     <<W({"no railroad permit required", "no railroad permit is required"})>>,
     <<W({"no additional land needed"})>>,
     <<W({"no land rights needed", "no new land rights needed"})>> >>

_POS_FUZZY ==
  << <<W({"no additional land rights"})>>,
     <<W({"no land rights"})>>,
     <<W({"no land needed"})>>,
     <<W({"tasks cleared"} \cup LandTasksDone)>> >>

_matches_no_permit(text) ==
  \/ SearchAny(_POSITIVE_NO_PERMIT, text)
  \/ ~SearchAny(_DISQUALIFY, text) /\ SearchAny(_POS_FUZZY, text)

_UNDER_REVIEW_PATTERNS ==
  << <<W({"wr team", "wrteam"}), W({"batch"}), W({"land review"})>>,
     <<W({"batch for land review", "batched for land review"})>> >>

_matches_under_review(text) == SearchAny(_UNDER_REVIEW_PATTERNS, text)

_PERMIT_REQUIRED_RE == <<W({"permit require", "permit required", "permit needed"})>>

_REVIEW_CONTEXT_RE ==
  <<W({"land request", "land permitting request", "land permitting", "caltrans", "railroad"})>>

_matches_reviewed_permit_required(text) ==
  /\ text # ""
  /\ ~_matches_no_permit(text)
  /\ Search(_PERMIT_REQUIRED_RE, text)
  /\ (Search(_REVIEW_CONTEXT_RE, text) \/ Search(<<W({"land request reviewed"})>>, text))

_OBTAINED_RE ==
  <<W({"permit obtained", "rider/extension obtained"}
      \cup {ct \o a \o "permit obtained" : ct \in CalTrans \cup {"railroad"}, a \in Sp})>>

_APPLIED_RE ==
  << <<W({"applied", "reapplied", "re-applied", "re applied"}), W({"permit"})>>,
     <<W({"permit application submitted"})>>,
     <<W({"application submitted"}), W({"permit"})>>,
     <<W({"site specific permit application submitted"})>>,
     <<W({"reopened", "re-opened", "re opened"}), W({"applied", "application"}), W({"permit"})>> >>

_ANTICIPATED_PHRASE_RE == <<W({"anticipated issue date", "anticipated issued date"})>>

_matches_applied(text) == SearchAny(_APPLIED_RE, text) \/ Search(_ANTICIPATED_PHRASE_RE, text)

_MONUMENT_POSITIVES ==
  << <<W({"monument preservation " \o a \o " " \o b :
            a \in {"research", "field visit", "analysis", "review"},
            b \in {"performed", "completed"}}),
       W({"no evidence of monument found", "no evidence of monumentation found",
          "no monument found", "no monuments found"})>>,
     <<W({"no evidence of monument found", "no evidence of monumentation found"})>>,
     <<W({"no monument found", "no monuments found"})>>,
     <<W({"monument preservation review completed", "monument preservation analysis completed"}),
       W({"no monument found", "no monuments found"})>>,
     <<W({"monument were not found", "monuments were not found"}), W({"construction limits"})>>,
     <<W({"monument were not found", "monuments were not found"}), W({"task complete"})>>,
     <<W({"no monument in vicinity"})>>,
     <<[lits |-> {"_no monument in vicinity"}, lb |-> FALSE, rb |-> TRUE]>>,
     <<W({"monument", "monuments"}), W({"not found"})>> >>

_matches_monument_done(text) ==
  /\ Search(<<Prefix({"monument"})>>, text)
  /\ SearchAny(_MONUMENT_POSITIVES, text)

\* Decimal text of a natural number, as Python's f"{n}".
RECURSIVE IntToStr(_)
IntToStr(n) == IF n < 10 THEN Ch(Digits, n + 1) ELSE IntToStr(n \div 10) \o Ch(Digits, (n % 10) + 1)

RECURSIVE SkipSpaces(_, _)
SkipSpaces(t, p) == IF p <= Len(t) /\ Ch(t, p) = " " THEN SkipSpaces(t, p + 1) ELSE p

IsDigitAt(t, p) == p >= 1 /\ p <= Len(t) /\ IsDigit(Ch(t, p))
IsSepAt(t, p) == p >= 1 /\ p <= Len(t) /\ IsSep(Ch(t, p))

\* Length of the match of \d{1,2}[/-] at p (2 or 3), 0 when it fails.
NumSepLen(t, p) ==
  IF IsDigitAt(t, p) /\ IsSepAt(t, p + 1) THEN 2
  ELSE IF IsDigitAt(t, p) /\ IsDigitAt(t, p + 1) /\ IsSepAt(t, p + 2) THEN 3
  ELSE 0

\* Number of digits \d{2,4} takes at p, 0 when fewer than two are there.
YearLen(t, p) ==
  IF ~(IsDigitAt(t, p) /\ IsDigitAt(t, p + 1)) THEN 0
  ELSE IF ~IsDigitAt(t, p + 2) THEN 2
  ELSE IF ~IsDigitAt(t, p + 3) THEN 3 ELSE 4

NoDate == [ok |-> FALSE, m |-> 0, d |-> 0, y |-> 0]

\* (?P<m>\d{1,2})[/-](?P<d>\d{1,2})[/-](?P<y>\d{2,4}) matched at p, with
\* the lengths of its three parts.
DateOfLengths(t, p, l1, l2, l3) ==
  IF l3 = 0 THEN NoDate
  ELSE [ok |-> TRUE,
        m |-> CastInt(SubSeq(t, p, p + l1 - 2)),
        d |-> CastInt(SubSeq(t, p + l1, p + l1 + l2 - 2)),
        y |-> CastInt(SubSeq(t, p + l1 + l2, p + l1 + l2 + l3 - 1))]

DateAfterDay(t, p, l1, l2) ==
  IF l2 = 0 THEN NoDate ELSE DateOfLengths(t, p, l1, l2, YearLen(t, p + l1 + l2))

DateAfterMonth(t, p, l1) ==
  IF l1 = 0 THEN NoDate ELSE DateAfterDay(t, p, l1, NumSepLen(t, p + l1))

DateAt(t, p) == DateAfterMonth(t, p, NumSepLen(t, p))

\* yyyy = yy if yy >= 100 else _yyyy_from_two(yy).
FullYear(y) == IF y >= 100 THEN y ELSE 2000 + y

MdyText(m, d, yyyy) ==
  IF m \in 1..12 /\ d \in 1..31 /\ yyyy \in 2000..2100
  THEN IntToStr(m) \o "/" \o IntToStr(d) \o "/" \o IntToStr(yyyy)
  ELSE NULL

\* The shared tail of _extract_expiry and _extract_anticipated.
ExtractedMdy(dm) == MdyText(dm.m, dm.d, FullYear(dm.y))

\* Where the date of _EXPIRES_RE starts when the keyword ends at e:
\* \s*[:\-]?\s* skipped.
SkipMark(t, p) == IF p <= Len(t) /\ Ch(t, p) \in {":", "-"} THEN SkipSpaces(t, p + 1) ELSE p

AfterKeyword(t, e) == SkipMark(t, SkipSpaces(t, e + 1))

_EXPIRES_RE == W({"expire", "expires", "expiration"})

\* The date _EXPIRES_RE captures when its keyword lit matches at i.
DateAfter(t, i, lit) ==
  IF MatchAt(t, _EXPIRES_RE, lit, i) THEN DateAt(t, AfterKeyword(t, i + Len(lit) - 1))
  ELSE NoDate

ExpiryMatches(t) ==
  {r \in {[pos |-> i, dm |-> DateAfter(t, i, lit)] : i \in 1..Len(t), lit \in _EXPIRES_RE.lits} :
     r.dm.ok}

\* The date of the leftmost match.
LeftmostMdy(hits) ==
  IF hits = {} THEN NULL
  ELSE ExtractedMdy((CHOOSE x \in hits : \A z \in hits : x.pos <= z.pos).dm)

_extract_expiry(t) == LeftmostMdy(ExpiryMatches(t))

\* _ANTICIPATED_DATE_RE: the first date that starts after the phrase (the
\* lazy '.*?' takes as little as it can); e is the end of the phrase.
DatesAfter(t, e) ==
  IF e = 0 THEN {} ELSE {[pos |-> p, dm |-> DateAt(t, p)] : p \in (e + 1)..Len(t)}

_extract_anticipated(t) ==
  LeftmostMdy({r \in DatesAfter(t, EarliestEnd(t, _ANTICIPATED_PHRASE_RE[1], 1)) : r.dm.ok})

NO_PERMIT_ACTION == "Review complete. No permit needed."
PERMIT_OBTAINED_ACTION == "Permit obtained."
PERMIT_APPLIED_ACTION == "Permit applied for."
MONUMENT_DONE_ACTION == "Monument survey complete."
UNDER_REVIEW_ACTION == "Under review."
REVIEWED_PERMIT_REQ_ACTION == "Request has been reviewed and permit is required."

\* The buckets in priority order, on the lower-cased comment t.
Bucket_NoPermitFirst(t) == IF _matches_no_permit(t) THEN <<NO_PERMIT_ACTION, "-", "-">> ELSE IF Search(_OBTAINED_RE, t) THEN <<PERMIT_OBTAINED_ACTION, "-", COALESCE(_extract_expiry(t), "-")>> ELSE <<"check", "-", "-">>
Bucket(t) ==
  IF Search(_OBTAINED_RE, t)
  THEN <<PERMIT_OBTAINED_ACTION, "-", COALESCE(_extract_expiry(t), "-")>>
  ELSE IF _matches_applied(t)
  THEN <<PERMIT_APPLIED_ACTION, COALESCE(_extract_anticipated(t), "-"), "-">>
  ELSE IF _matches_reviewed_permit_required(t) THEN <<REVIEWED_PERMIT_REQ_ACTION, "-", "-">>
  ELSE IF _matches_under_review(t) THEN <<UNDER_REVIEW_ACTION, "-", "-">>
  ELSE IF _matches_no_permit(t) THEN <<NO_PERMIT_ACTION, "-", "-">>
  ELSE IF _matches_monument_done(t) THEN <<MONUMENT_DONE_ACTION, "-", "-">>
  ELSE <<"check", "-", "-">>

\* (Parsed Action, Parsed Anticipated Issue Date, Parsed Permit Expiration Date)
parse_comment_semantics(txt) == Bucket(LowerStr(txt))

(***************************************************************************)
(* Latest comment of a comments field (comments.py).  A field is modelled   *)
(* by its lines after parse_comment_line: <<>> is the blank field and a     *)
(* line is [iso, lan, txt], each NULL when the line has no such part.      *)
(***************************************************************************)
Falsy(x) == x = NULL \/ x = ""

RECURSIVE NoDigit(_)
NoDigit(s) == s = "" \/ (~IsDigit(Ch(s, 1)) /\ NoDigit(SubSeq(s, 2, Len(s))))

MaxBannerLen == 120

\* The tests of _is_noise_banner on the stripped text t.
NoiseBanner(t) ==
  \/ t = ""
  \/ Ch(t, 1) = "*"
  \/ UpperStr(t) = t /\ NoDigit(t) /\ Len(t) <= MaxBannerLen

_is_noise_banner(txt) == NoiseBanner(TRIM(txt))

\* A line has a date, a LAN id or text.
Meaningful(l) == ~Falsy(l.iso) \/ ~Falsy(l.lan) \/ (~Falsy(l.txt) /\ TRIM(l.txt) # "")

\* A line is of the class: 1 dated, 2 with a LAN id only, 3 plain text.
OfClass(l, class) ==
  CASE class = 1 -> ~Falsy(l.iso)
    [] class = 2 -> Falsy(l.iso) /\ ~Falsy(l.lan)
    [] OTHER -> Falsy(l.iso) /\ Falsy(l.lan) /\ ~_is_noise_banner(COALESCE(l.txt, ""))

\* The first line of the lines at k.. that is meaningful and of the class,
\* 0 when there is none.
RECURSIVE FirstLine(_, _, _)
FirstLine(lines, class, k) ==
  IF k > Len(lines) THEN 0
  ELSE IF Meaningful(lines[k]) /\ OfClass(lines[k], class) THEN k
  ELSE FirstLine(lines, class, k + 1)

\* The first dated line k1, else the first LAN-only line k2, else the first
\* plain line k3.
FirstOfClasses(k1, k2, k3) == IF k1 # 0 THEN k1 ELSE IF k2 # 0 THEN k2 ELSE k3

BlockOf(l) == <<l.iso, IF Falsy(l.iso) THEN NULL ELSE _iso_to_mdy(l.iso), l.lan, l.txt>>

BlockAt(raw, k) == IF k = 0 THEN <<NULL, NULL, NULL, NULL>> ELSE BlockOf(raw[k])

\* (iso, mdy, lan, txt) of the latest comment block.
extract_latest_comment_block(raw) ==
  BlockAt(raw, FirstOfClasses(FirstLine(raw, 1, 1), FirstLine(raw, 2, 1), FirstLine(raw, 3, 1)))

\* The loop body of step 6 of build_land_tracker: (iso, mdy, lan_id, txt)
\* of the chosen source, with the "Not enough data" fill-ins.
NotEnough(x) == IF Falsy(x) THEN "Not enough data" ELSE x

choose_pc_OnTies(l, c) == IF ~Falsy(l[1]) /\ ~Falsy(c[1]) THEN StrLeq(l[1], c[1]) ELSE IF ~Falsy(c[1]) /\ Falsy(l[1]) THEN TRUE ELSE IF Falsy(l[1]) /\ Falsy(c[1]) THEN ~Falsy(c[4]) ELSE FALSE
choose_pc(l, c) ==
  IF ~Falsy(l[1]) /\ ~Falsy(c[1]) THEN StrLess(l[1], c[1])
  ELSE IF ~Falsy(c[1]) /\ Falsy(l[1]) THEN TRUE
  ELSE IF Falsy(l[1]) /\ Falsy(c[1]) THEN ~Falsy(c[4]) /\ Falsy(l[4])
  ELSE FALSE

FilledIn(src) == <<src[1], NotEnough(src[2]), NotEnough(src[3]), NotEnough(src[4])>>

ChosenBlock(l, c) == FilledIn(IF choose_pc(l, c) THEN c ELSE l)

LatestTriplet(lm, pc) ==
  ChosenBlock(extract_latest_comment_block(lm), extract_latest_comment_block(pc))

(***************************************************************************)
(* Land tracker.                                                           *)
(***************************************************************************)
\* Decimal text str zero-padded to at least w characters (printf '%0wd').
PadStr(str, w) == IF Len(str) >= w THEN str ELSE SubSeq("0000", 1, w - Len(str)) \o str

Pad(n, w) == PadStr(IntToStr(n), w)

\* The ELSE branch of _to_iso_case_flex: year = the last four characters,
\* month = the text before the first '/' (at i), day = the text between the
\* first two '/' (the second one at j of the rest; substr with length -1
\* yields the character before its start when there is none).
FlexPrintf(last4, month, day) ==
  Pad(CastInt(last4), 4) \o "-" \o Pad(CastInt(month), 2) \o "-" \o Pad(CastInt(day), 2)

FlexDay(expr, i, rest, j) == IF j = 0 THEN Ch(expr, i) ELSE SubSeq(rest, 1, j - 1)

FlexRest(expr, i, rest) ==
  FlexPrintf(SubSeq(expr, IF Len(expr) > 4 THEN Len(expr) - 3 ELSE 1, Len(expr)),
             SubSeq(expr, 1, i - 1),
             FlexDay(expr, i, rest, INSTR(rest, "/")))

FlexAt(expr, i) == IF i = 0 THEN NULL ELSE FlexRest(expr, i, SUBSTR_from(expr, i + 1))

FlexCase(expr) ==
  IF expr = NULL \/ expr = "" \/ expr = "-" THEN NULL ELSE FlexAt(expr, INSTR(expr, "/"))

_to_iso_case_flex(x) == FlexCase(TRIM(x))

\* COALESCE(julianday(iso), -1e15) on the scale of day numbers.
NoJulianDay == -1000000

JulianOfDate(d) == IF d = NULL THEN NoJulianDay ELSE IsoDayNumber(d)

JulianDayOr(iso) == JulianOfDate(SqlDate(iso))

\* The rows of land_data the `chosen` CTE keeps for an order: every row
\* whose created date is the order's latest, or the first row when no
\* row of the order has one.
CreatedAt(dated, latest) == Ascending({i \in dated : LandCreated(i) = latest})

ChosenOf(S, dated) ==
  IF S = {} THEN <<0>>
  ELSE IF dated # {} THEN CreatedAt(dated, StrMax({LandCreated(i) : i \in dated}))
  ELSE <<MinOrZero(S)>>

ChosenIn(S) == ChosenOf(S, {i \in S : LandCreated(i) # NULL})

LandChosen(o) == ChosenIn({i \in 1..Len(land_data) : land_data[i].Order = o})

LandComments(ld, col) == IF ld = 0 THEN <<>> ELSE land_data[ld][col]

\* The CASE of step 7.
LandStructuralAction(sp57, rp57, permit_type, permit_status, lm, pc, wpd_iso, pry_int, exp_iso, app_iso, issue_iso) ==
  IF /\ UPPER(TRIM(COALESCE(sp57, ""))) = "COMP" /\ UPPER(TRIM(COALESCE(rp57, ""))) = "COMP"
     /\ (permit_type = NULL \/ TRIM(COALESCE(permit_type, "")) = "")
     /\ pc = <<>> /\ lm = <<>>
  THEN "Permit not required."
  ELSE IF wpd_iso # NULL /\ pry_int # NULL /\ SqlDate(wpd_iso) # NULL
            /\ IsoYear(SqlDate(wpd_iso)) > CastInt(pry_int)
       THEN "WPD ahead of PRY. Please pull in the job."
  ELSE IF permit_type = NULL /\ pc = <<>> /\ lm = <<>>
       THEN "No data available. Permit likely not required."
  ELSE IF permit_status = "No permit required."
       THEN "Please confirm no permit is required and complete SP/RP57."
  ELSE IF permit_status = "Permit obtained." /\ exp_iso # NULL /\ DateGe(exp_iso, today)
       THEN "Please confirm permit is obtained and complete SP/RP57."
  ELSE IF app_iso # NULL /\ DateGt(app_iso, today)
       THEN "Anticipated application date is in the future. No action required."
  ELSE IF issue_iso # NULL /\ DateGt(issue_iso, today)
       THEN "Anticipated issue date is in the future. No action required."
  ELSE IF permit_status = "On Hold" THEN "Job on hold. No action required."
  ELSE "check"

\* Step 10, the parsed override, on the Action of one row.
ParsedOverride(parsed_action, action) ==
  IF parsed_action = NO_PERMIT_ACTION THEN NO_PERMIT_ACTION ELSE action

\* Step 11, the two monument UPDATEs in statement order.
MonumentOverride_Always(parsed_action, sp57, rp57, action) == IF parsed_action # MONUMENT_DONE_ACTION THEN action ELSE "Monument survey complete. No action required."
MonumentOverride(parsed_action, sp57, rp57, action) ==
  IF parsed_action # MONUMENT_DONE_ACTION THEN action
  ELSE IF UPPER(TRIM(sp57)) = "COMP" /\ UPPER(TRIM(rp57)) = "COMP"
       THEN "Monument survey complete. No action required."
  ELSE "check"

\* Step 12, the permit-expired rule, on the two julian days j1, j2.
PermitExpiredOverride_SentinelKept(notif, exp1, exp2, j1, j2, action) == IF UPPER(TRIM(COALESCE(notif, ""))) = "OPEN" /\ (exp1 # NULL \/ exp2 # NULL) /\ (IF j1 >= j2 THEN j1 ELSE j2) < IsoDayNumber(today) /\ action # "Review complete. No permit needed." THEN "Permit expired. Please request for extension." ELSE action
PermitExpiredOverride(notif, exp1, exp2, j1, j2, action) ==
  IF /\ UPPER(TRIM(COALESCE(notif, ""))) = "OPEN"
     /\ (exp1 # NULL \/ exp2 # NULL)
     /\ (IF j1 >= j2 THEN j1 ELSE j2) < IsoDayNumber(today)
  THEN "Permit expired. Please request for extension." ELSE action

PermitExpiredRule(notif, exp1, exp2, action) ==
  PermitExpiredOverride(notif, exp1, exp2, JulianDayOr(exp1), JulianDayOr(exp2), action)

\* Steps 9-12 on one row of land_tracker, given the parsed triple of its
\* latest comment: the parsed columns, then the UPDATEs of "Action" in
\* statement order.
ParsedInto(row, parsed) ==
  [row EXCEPT !["Parsed Action"] = parsed[1],
              !["Parsed Anticipated Issue Date"] = parsed[2],
              !["Parsed Permit Expiration Date"] = parsed[3],
              !["Action"] =
                 PermitExpiredRule(row["Notification Status"],
                   _to_iso_case_flex(NULLIF(TRIM(COALESCE(row["Permit Expiration Date"], "")), "")),
                   _to_iso_case_flex(NULLIF(TRIM(COALESCE(parsed[3], "")), "")),
                   MonumentOverride(parsed[1], row["SP57"], row["RP57"],
                     ParsedOverride(parsed[1], row["Action"])))]

LandOverrides(row) == ParsedInto(row, parse_comment_semantics(COALESCE(row["Latest Comment"], "")))

\* The final SELECT over one base row: order o, MPP row m, chosen land_data
\* row ld, the displayed cells and the latest-comment triplet of the order.
LandFinalRow(o, m, ld, sp57, rp57, permit_type, permit_status, lm, pc, latest) ==
  ("Order" :> o)
    @@ ("Notification Status" :> COALESCE(Cell(mpp_data, m, "NotifStatus"), ""))
    @@ ("SAP Status" :> COALESCE(Cell(mpp_data, m, "PrimaryStatus"), ""))
    @@ ("SP57" :> sp57) @@ ("RP57" :> rp57)
    @@ ("Permit Type" :> permit_type) @@ ("Permit Status" :> permit_status)
    @@ ("Anticipated Application Date" :> COALESCE(Cell(land_data, ld, "AnticipatedApplication"), ""))
    @@ ("Anticipated Issue Date" :> COALESCE(Cell(land_data, ld, "AnticipatedIssuedDate"), ""))
    @@ ("Permit Expiration Date" :> COALESCE(Cell(land_data, ld, "PermitExpiration"), ""))
    @@ ("Land Management Comments" :> lm) @@ ("Permit Comment" :> pc)
    @@ ("Latest Comment Date" :> COALESCE(latest[2], "Not enough data"))
    @@ ("LAN ID" :> COALESCE(latest[3], "Not enough data"))
    @@ ("Latest Comment" :> COALESCE(latest[4], "Not enough data"))
    @@ ("Parsed Action" :> "") @@ ("Parsed Anticipated Issue Date" :> "")
    @@ ("Parsed Permit Expiration Date" :> "")
    @@ ("Action" :> LandStructuralAction(sp57, rp57, permit_type, permit_status, lm, pc,
                      _to_iso_case(Cell(mpp_data, m, "WorkPlanDate")),
                      NULLIF(TRIM(COALESCE(Cell(mpp_data, m, "PRY"), "")), ""),
                      _to_iso_case(Cell(land_data, ld, "PermitExpiration")),
                      _to_iso_case(Cell(land_data, ld, "AnticipatedApplication")),
                      _to_iso_case(Cell(land_data, ld, "AnticipatedIssuedDate"))))

\* "Permit Status" of the base row: 'Unknown' without a land_data row or
\* with a blank status.
PermitStatusOf(ld, raw_status) ==
  IF ld = 0 \/ TRIM(COALESCE(raw_status, "")) = "" THEN "Unknown" ELSE raw_status

\* One row of __land_final: order o joined to MPP row m and chosen
\* land_data row ld, with the latest-comment triplet of the order.
LandRow(st, o, m, ld, latest) ==
  LandFinalRow(o, m, ld,
    COALESCE(Col(st, o, "SP57"), ""), COALESCE(Col(st, o, "RP57"), ""),
    NULLIF(TRIM(COALESCE(Cell(land_data, ld, "PermitType"), "")), ""),
    PermitStatusOf(ld, Cell(land_data, ld, "PermitStatus")),
    LandComments(ld, "LandMgmtComments"), LandComments(ld, "PermitComment"),
    latest)

\* The (m, ld) pairs of __land_base for an order, in nested-loop order.
PairsOf(js) == [k \in 1..Len(js) |-> <<js[k][1], js[k][2]>>]

LandBase(o) == PairsOf(Triples(Matches(mpp_data, "Order", o), LandChosen(o), <<0>>))

\* __land_latest has one row per order: INSERT OR REPLACE keeps the
\* triplet of the order's last base row.
TripletOf(ld) ==
  LatestTriplet(LandComments(ld, "LandMgmtComments"), LandComments(ld, "PermitComment"))

LastLand(b) == b[Len(b)][2]

land_latest(o) == TripletOf(LastLand(LandBase(o)))

LandRowsOf(st, o, b, latest) ==
  [k \in 1..Len(b) |-> LandRow(st, o, b[k][1], b[k][2], latest)]

land_final(st, od) ==
  Flatten([o \in PendingOrders(od, "Land") |-> LandRowsOf(st, o, LandBase(o), land_latest(o))],
          Ascending(PendingOrders(od, "Land")))

\* Steps 9-12 over every row of land_tracker.
OverrideAll(lt) == [o \in DOMAIN lt |-> LandOverrides(lt[o])]

build_land_tracker(st, od, lt) == OverrideAll(ReplaceRows(lt, land_final(st, od)))

(***************************************************************************)
(* Rows of the upstream relations.                                         *)
(***************************************************************************)
MppRow(o, ps, ns, wpd, click, exp, pry) ==
  [Order |-> o, PrimaryStatus |-> ps, NotifStatus |-> ns, WorkPlanDate |-> wpd,
   ClickStartDate |-> click, PermitExpDate |-> exp, PRY |-> pry]

SapRow(o, code, status) == [Order |-> o, Code |-> code, TaskUsrStatus |-> status]

EpwRow(o, status, update, days, exp, env) ==
  [OrderNumber |-> o, EPWStatus |-> status, EpermitUpdate |-> update, SubmitDays |-> days,
   EPWExpirationDate |-> exp, EnvStatus |-> env]

LandDataRow(o, status, type, app, issued, exp, lm, pc, created) ==
  [Order |-> o, PermitStatus |-> status, PermitType |-> type, AnticipatedApplication |-> app,
   AnticipatedIssuedDate |-> issued, PermitExpiration |-> exp, LandMgmtComments |-> lm,
   PermitComment |-> pc, PermitCreatedDate |-> created]

\* A manual_tracker row: the key and the seven manual columns (MANUAL_COLS).
ManualRow(o, out_date, notes) == [Order |-> o, EnvAnticipatedOutDate |-> out_date, EnvNotes |-> notes, SentToOUDate |-> NULL, PermitNotes |-> NULL, LandNotes |-> NULL, FAANotes |-> NULL, JointPoleNotes |-> NULL]

JointPoleDataRow(o, pis, status_date, due_by, last_chgd) ==
  [OrderNo |-> o, PrimaryIntentStatus |-> pis, StatusDate |-> status_date, DueBy |-> due_by,
   LastChgd |-> last_chgd]

(***************************************************************************)
(* The databases the model starts from.  Order 1 is the order whose data   *)
(* varies; the other orders have fixed data.  Dates are the MM/DD/YYYY      *)
(* texts of the importers: '' for a blank date of mpp_data, NULL for one of *)
(* the other snapshots.                                                    *)
(***************************************************************************)
\* A list with two of its rows exchanged, and a list back to front.
Swapped(seq, i, j) == [k \in 1..Len(seq) |-> IF k = i THEN seq[j] ELSE IF k = j THEN seq[i] ELSE seq[k]]

Reversed(seq) == [k \in 1..Len(seq) |-> seq[Len(seq) + 1 - k]]

Dataset(otl, mpp, sap, epw, land, manual, jp, t) ==
  [otl |-> otl, mpp |-> mpp, sap |-> sap, epw |-> epw, land |-> land, manual |-> manual,
   jp |-> jp, today |-> t]

Today0 == "2026-03-01"

Past == "02/15/2026"
OnToday0 == "03/01/2026"
Future == "06/30/2026"

\* The task events of one code: none, one of any status, completed events
\* followed by one further event (at most MaxEvents in all), or an
\* in-progress event and one other event in either order.
RECURSIVE Completed(_)
Completed(n) == IF n = 0 THEN <<>> ELSE <<"COMP">> \o Completed(n - 1)

TaskStatuses == {"INPR", "COMP", "ACTD", "INPT", "inpr ", "", NULL}

MixedEvents == UNION {{<<"INPR", x>>, <<x, "INPR">>} : x \in {"INPT", "COMP"}}

EventLists ==
  {<<>>} \cup {Completed(k) \o <<x>> : k \in 0..(MaxEvents - 1), x \in TaskStatuses}
    \cup (IF MaxEvents >= 2 THEN MixedEvents ELSE {})

Events(o, code, statuses) == [k \in 1..Len(statuses) |-> SapRow(o, code, statuses[k])]

\* The MPP row of order 1 with blank dates.
Mpp1(ps, ns) == <<MppRow(1, ps, ns, "", "", "", "2026")>>

\* The other orders: under construction, with an open environment task.
BgOrders == Orders \ {1}

BgMpp == [k \in 1..(MaxOrders - 1) |-> MppRow(k + 1, "UNSC", "OPEN", "04/01/2026", "", "", "2026")]

BgSapOf(o) == <<SapRow(o, "PC21", "INPR"), SapRow(o, "SP56", "COMP"), SapRow(o, "AP10", "INPR")>>

BgSap == Flatten([o \in BgOrders |-> BgSapOf(o)], Ascending(BgOrders))

\* Family 1: the task codes of one domain at a time.
CodePairs == {<<"SP56", "RP56">>, <<"SP57", "RP57">>, <<"PC24", "DS76">>, <<"PC21", "PC20">>,
              <<"AP10", "DS73">>}

GateDatasets ==
  {Dataset({1},
           BgMpp \o (IF ps = NULL THEN <<>> ELSE Mpp1(ps, "OPEN")),
           Events(1, pair[1], e1) \o BgSap \o Events(1, pair[2], e2),
           <<>>, <<>>, <<>>, <<>>, Today0) :
     ps \in {"PEND", "UNSC", "ESTS", NULL}, pair \in CodePairs,
     e1 \in EventLists, e2 \in {<<>>, <<"INPR">>, <<"COMP">>}}

\* Family 2: completed permit and land tasks with the expiration dates of
\* the three snapshots absent, past, today or ahead.
EpwExp(exp) == EpwRow(1, "Active", "In Progress", "10.0", exp, "Cleared")

EpwChoices ==
  {<<>>, <<EpwExp(Past), EpwExp(Future)>>} \cup {<<EpwExp(x)>> : x \in {NULL, Past, OnToday0, Future}}

LandExp(exp, created) ==
  LandDataRow(1, "Permit obtained.", "Encroachment", NULL, NULL, exp, <<>>, <<>>, created)

LandChoices ==
  {<<>>,
   <<LandExp(Past, "01/05/2026"), LandExp(Future, "01/20/2026")>>,
   <<LandExp(Future, "01/20/2026"), LandExp(Past, "01/05/2026")>>,
   <<LandExp(Future, NULL), LandExp(Past, NULL)>>}
    \cup {<<LandExp(x, "01/05/2026")>> : x \in {NULL, Past, OnToday0, Future}}

ExpiryDatasets ==
  {Dataset({1},
           <<MppRow(1, "PEND", "OPEN", "", "", mexp, "2026")>>,
           <<SapRow(1, "SP56", "COMP"), SapRow(1, "RP56", "COMP"),
             SapRow(1, "SP57", "COMP"), SapRow(1, "RP57", "COMP")>>,
           epw, land, <<>>, <<>>, Today0) :
     mexp \in {"", "12/31/2025", Past, Future}, epw \in EpwChoices, land \in LandChoices}

\* Family 3: the primary and notification statuses of the stage rules, with
\* and without an open dependency.
StageStatuses ==
  {"CNCL", "ESTS", "DEFR", "APPR", "UNSC", "CONS", "PEND", "UNSE", "ADER", "DCNL", "CLSD",
   "MAPP", "HOLD", " pend", ""}

StageDatasets ==
  {Dataset({1}, Mpp1(ps, ns), Events(1, "SP56", e), <<>>, <<>>, <<>>, <<>>, Today0) :
     ps \in StageStatuses, ns \in {"CNCL", "OPEN", "cncl "}, e \in {<<>>, <<"INPR">>}}

\* Family 4: every combination of Pending domains, with one or all orders
\* tracked.
OpenTask == [d \in DomainSet |->
               CASE d = "Permit" -> "SP56" [] d = "Land" -> "SP57" [] d = "FAA" -> "PC24"
                 [] d = "Environment" -> "PC21" [] d = "Joint Pole" -> "PC20" [] OTHER -> "AP25"]

OpenTasks(ds) == [k \in 1..Len(ds) |-> SapRow(1, OpenTask[ds[k]], "INPR")]

RECURSIVE DomainList(_, _)
DomainList(S, i) ==
  IF i > Len(Domains) THEN <<>>
  ELSE (IF Domains[i] \in S THEN <<Domains[i]>> ELSE <<>>) \o DomainList(S, i + 1)

MultiDatasets ==
  {Dataset(otl, BgMpp \o Mpp1("PEND", "OPEN"), BgSap \o OpenTasks(DomainList(S, 1)),
           <<>>, <<LandExp(Future, "01/05/2026")>>, <<>>, <<>>, Today0) :
     otl \in {{1}, Orders}, S \in SUBSET DomainSet}

\* Family 5: the permit tracker: an open permit task with the EPW and MPP
\* cells its rules read.
PermitMpp(wpd, click) == <<MppRow(1, "PEND", "OPEN", wpd, click, "", "2026")>>

PermitEpw(status, update, days, exp) == <<EpwRow(1, status, update, days, exp, NULL)>>

PermitTask == <<SapRow(1, "SP56", "INPR")>>

PermitDatasets ==
  {Dataset({1}, PermitMpp("", click), PermitTask, PermitEpw("Active", "In Progress", "10.0", exp),
           <<>>, <<>>, <<>>, Today0) :
     click \in {"", Past, OnToday0, Future}, exp \in {Past, OnToday0, Future}}
    \cup
  {Dataset({1}, PermitMpp(wpd, ""), PermitTask, PermitEpw("Active", update, days, NULL),
           <<>>, <<>>, <<>>, Today0) :
     wpd \in {"", "12/15/2025", Past, OnToday0, Future},
     update \in {NULL, "  ", "In Progress", "02/01 sent; Submitted", "Approved"},
     days \in {"46.0", "45.0", NULL}}
    \cup
  {Dataset({1}, PermitMpp(wpd, ""), PermitTask, epw, <<>>, <<>>, <<>>, Today0) :
     wpd \in {"", Past}, epw \in {<<>>, PermitEpw("not activated ", "Submitted", "46.0", Past)}}

\* Family 6: the environment tracker: an open environment task with the
\* anticipated out dates of the manual inputs.
OutDates == {NULL, "", "3/1/2026", "02/28/2026", "2026-3-5", "2026/3/5", "soon", "03-02-2026",
             " 3/2/2026 ", "2/30/2026"}

EnvironmentDatasets ==
  {Dataset({1}, Mpp1("PEND", "OPEN"), <<SapRow(1, "PC21", "INPR")>>, epw, <<>>, manual, <<>>, Today0) :
     epw \in {<<>>, <<EpwExp(NULL)>>},
     manual \in {<<>>} \cup {<<ManualRow(1, d, "note")>> : d \in OutDates}}

\* Family 7: the joint pole tracker: an open joint pole task with the
\* intents of the joint pole snapshot.
Jp(pis, status_date, due_by, last_chgd) == JointPoleDataRow(1, pis, status_date, due_by, last_chgd)

JointPoleChoices ==
  {<<>>}
    \cup {<<Jp(pis, NULL, NULL, NULL)>> :
            pis \in {NULL, " ", "Draft", "Draft - with Estimator", "Intent Deleted", "Cancelled",
                     "Released to Construction", "Engineering Review", "Closed"}}
    \cup {<<Jp("Sent to OU", NULL, d, NULL)>> : d \in {NULL, Past, OnToday0, Future}}
    \cup {<<Jp("Ready to Send", d, NULL, NULL)>> : d \in {NULL, "02/22/2026", "02/10/2026"}}
    \cup {<<Jp("Draft", NULL, NULL, a), Jp("Closed", NULL, NULL, b)>> :
            a \in {NULL, Past}, b \in {NULL, Past, Future}}

JointPoleDatasets ==
  {Dataset({1}, Mpp1("PEND", "OPEN"), <<SapRow(1, "PC20", "INPR")>>, <<>>, <<>>, <<>>, jp, Today0) :
     jp \in JointPoleChoices}
    \cup
  {Dataset({1}, <<MppRow(1, "PEND", "OPEN", wpd, "", "", "2026")>>, <<SapRow(1, "PC20", "INPR")>>,
           <<>>, <<>>, <<>>, <<Jp("With Estimator", NULL, NULL, NULL)>>, Today0) :
     wpd \in {"", "04/01/2026", "05/31/2026", "12/01/2026"}}

\* Family 8: the land tracker: open or completed land tasks with the cells
\* and the comments of the land snapshot.
Line(iso, lan, txt) == [iso |-> iso, lan |-> lan, txt |-> txt]

LandTasks == {<<SapRow(1, "SP57", "INPR")>>,
              <<SapRow(1, "SP57", "COMP"), SapRow(1, "RP57", "COMP")>>}

Land1(status, type, app, issued, exp, lm, pc) ==
  <<LandDataRow(1, status, type, app, issued, exp, lm, pc, "01/05/2026")>>

StructuralLand ==
  {<<>>,
   Land1(NULL, NULL, NULL, NULL, NULL, <<>>, <<>>),
   Land1("No permit required.", "Encroachment", NULL, NULL, NULL, <<>>, <<>>),
   Land1("Permit obtained.", "Encroachment", NULL, NULL, Future, <<>>, <<>>),
   Land1("Permit obtained.", "Encroachment", NULL, NULL, OnToday0, <<>>, <<>>),
   Land1("Applied", "Encroachment", Future, NULL, NULL, <<>>, <<>>),
   Land1("Applied", "Encroachment", Past, "03/02/2026", NULL, <<>>, <<>>),
   Land1("On Hold", "Encroachment", NULL, NULL, NULL, <<>>, <<>>),
   Land1("Applied", " ", NULL, NULL, NULL, <<>>, <<>>),
   Land1(" ", "Encroachment", NULL, NULL, Past, <<>>, <<>>)}

LmChoices ==
  {<<Line("2026-02-10", "AB12", "No permit needed.")>>,
   <<Line("2026-02-10", "AB12", "No monuments found")>>,
   <<Line("2026-02-10", NULL, "Permit obtained. Expires 3/1/2026")>>,
   <<Line(NULL, NULL, "Applied for permit")>>,
   <<Line("2026-02-20", "CD34", "Waiting on customer"),
     Line("2026-02-10", "AB12", "No permit needed.")>>,
   <<Line(NULL, NULL, "LAND COMMENTS"), Line(NULL, NULL, "No permit needed.")>>}

PcChoices == {<<>>, <<Line("2026-02-15", "EF56", "Caltrans permit required")>>}

LandDatasets ==
  {Dataset({1}, <<MppRow(1, "PEND", ns, wpd, "", "", "2026")>>, tasks, <<>>, land,
           <<>>, <<>>, Today0) :
     ns \in {"OPEN", "HOLD"}, wpd \in {"", "01/15/2027"}, tasks \in LandTasks,
     land \in StructuralLand}
    \cup
  {Dataset({1}, <<MppRow(1, "PEND", ns, "", "", "", "2026")>>, tasks, <<>>,
           Land1("Applied", "Encroachment", NULL, NULL, exp, lm, pc), <<>>, <<>>, Today0) :
     ns \in {"OPEN", "HOLD"}, tasks \in LandTasks, exp \in {NULL, Past},
     lm \in LmChoices, pc \in PcChoices}

\* Family 11: the two comment fields of one land_data row with and without
\* a date, an author id and a text.
ReconLm ==
  {<<>>,
   <<Line("2025-01-02", "AB12", "Survey requested")>>,
   <<Line("2025-01-05", NULL, "Survey requested")>>,
   <<Line(NULL, NULL, "Survey requested")>>}

ReconPc ==
  {<<>>,
   <<Line("2025-01-05", NULL, "Permit submitted")>>,
   <<Line("2025-01-02", "EF56", "Permit submitted")>>,
   <<Line(NULL, "EF56", "Permit submitted")>>}

ReconcileDatasets ==
  {Dataset({1}, Mpp1("PEND", "OPEN"), <<SapRow(1, "SP57", "INPR")>>, <<>>,
           Land1("Applied", "Encroachment", NULL, NULL, NULL, lm, pc), <<>>, <<>>, Today0) :
     lm \in ReconLm, pc \in ReconPc}

\* Family 10: snapshots with two rows for order 1, whose permit, land and
\* environment tasks are open.
DupEpw(a, b) ==
  <<EpwRow(1, "Active", a, "10.0", Past, "Cleared"), EpwRow(1, "Active", b, "50.0", Future, "In Review")>>

DupLand(ca, cb) ==
  <<LandDataRow(1, "Permit obtained.", "Encroachment", NULL, NULL, Past, <<>>, <<>>, ca),
    LandDataRow(1, "Applied", "Encroachment", NULL, NULL, Future, <<>>, <<>>, cb)>>

DuplicateDatasets ==
  {Dataset({1}, Mpp1("PEND", "OPEN"),
           <<SapRow(1, "SP56", "INPR"), SapRow(1, "PC21", "INPR")>> \o tasks,
           IF swap THEN Reversed(epw) ELSE epw, IF swap THEN Reversed(land) ELSE land,
           <<>>, <<>>, Today0) :
     swap \in BOOLEAN, tasks \in LandTasks, epw \in {DupEpw("In Progress", "Submitted")},
     land \in {DupLand("01/05/2026", "01/05/2026"), DupLand("01/05/2026", "01/20/2026"),
               DupLand(NULL, NULL), DupLand(NULL, "01/05/2026")}}

\* Family 9: tracked orders that no snapshot knows.
UnknownDatasets ==
  {Dataset(otl, mpp, sap, <<>>, <<>>, <<>>, <<>>, Today0) :
     otl \in {{}, {1}, Orders}, mpp \in {<<>>, BgMpp}, sap \in {<<>>, BgSap}}

Datasets ==
  GateDatasets \cup UnknownDatasets \cup ExpiryDatasets \cup StageDatasets \cup MultiDatasets \cup PermitDatasets
    \cup EnvironmentDatasets \cup JointPoleDatasets \cup LandDatasets \cup DuplicateDatasets
    \cup ReconcileDatasets

(***************************************************************************)
(* Schema reconciliation (_ensure_table).  A table is its column list       *)
(* (<<>> when the table does not exist), its rows, and the rows of its      *)
(* <table>__new side table as <<rows>> (<<>> when that table does not       *)
(* exist).                                                                  *)
(***************************************************************************)
LAND_COLS ==
  <<"Order", "Notification Status", "SAP Status", "SP57", "RP57", "Permit Type",
    "Permit Status", "Anticipated Application Date", "Anticipated Issue Date",
    "Permit Expiration Date", "Land Management Comments", "Permit Comment",
    "Latest Comment Date", "LAN ID", "Latest Comment", "Parsed Action",
    "Parsed Anticipated Issue Date", "Parsed Permit Expiration Date", "Action">>

\* Without the two pass-through columns, which the rows of the model omit.
PERMIT_TRACKER_COLS ==
  <<"Order", "Notification Status", "SAP Status", "SP56 Status", "RP56 Status",
    "E Permit Status", "Submit Days", "Permit Expiration Date", "Work Plan Date",
    "CLICK Start Date", "Action">>

FreshSchema == [land |-> <<>>, land_new |-> <<>>, permit |-> <<>>, permit_new |-> <<>>]

CanonicalSchema ==
  [land |-> LAND_COLS, land_new |-> <<>>, permit |-> PERMIT_TRACKER_COLS, permit_new |-> <<>>]

ColSet(cols) == {cols[i] : i \in 1..Len(cols)}

\* The columns of `want` that `have` lacks, in the order of `want`.
MissingCols(have, want) == SelectSeq(want, LAMBDA c : c \notin ColSet(have))

\* SELECT <col or NULL AS col> for the columns of `want` FROM a table with
\* the columns `have`.
Remapped(rows, have, want) ==
  [o \in DOMAIN rows |-> [c \in ColSet(want) |-> IF c \in ColSet(have) THEN rows[o][c] ELSE NULL]]

Tbl(cols, rows, new) == [cols |-> cols, rows |-> rows, new |-> new]

\* land.py: the durable states of _ensure_table in the order it reaches
\* them.  Both scripts run through executescript, every statement in its own
\* transaction: DROP TABLE IF EXISTS land_tracker__new; CREATE TABLE IF NOT
\* EXISTS land_tracker; (return when the columns are LAND_COLS) the ALTER
\* TABLE ADD COLUMNs; CREATE TABLE land_tracker__new; INSERT OR REPLACE ...
\* SELECT; DROP TABLE land_tracker; ALTER TABLE ... RENAME.
LandTableCreated(t) == IF t.cols = <<>> THEN Tbl(LAND_COLS, NoRows, <<>>) ELSE Tbl(t.cols, t.rows, <<>>)

LandAdded(t) ==
  Tbl(t.cols \o MissingCols(t.cols, LAND_COLS),
      Remapped(t.rows, t.cols, t.cols \o MissingCols(t.cols, LAND_COLS)), <<>>)

LandMigration(a) ==
  <<a,
    Tbl(a.cols, a.rows, <<NoRows>>),
    Tbl(a.cols, a.rows, <<Remapped(a.rows, a.cols, LAND_COLS)>>),
    Tbl(<<>>, NoRows, <<Remapped(a.rows, a.cols, LAND_COLS)>>),
    Tbl(LAND_COLS, Remapped(a.rows, a.cols, LAND_COLS), <<>>)>>

LandEnsureFrom(t, c) ==
  <<Tbl(t.cols, t.rows, <<>>), c>> \o (IF c.cols = LAND_COLS THEN <<>> ELSE LandMigration(LandAdded(c)))

LandEnsureStates(t) == LandEnsureFrom(t, LandTableCreated(t))

\* permit.py (and the other trackers, and _ensure_sap_tracker_schema): the
\* statements run through execute; the INSERT opens a transaction that the
\* DROP and the RENAME join and conn.commit() ends.  The durable states:
\* CREATE TABLE IF NOT EXISTS permit_tracker; (return when the columns are
\* canonical) CREATE TABLE IF NOT EXISTS permit_tracker__new; the commit.
PermitCreated(t) == IF t.cols = <<>> THEN Tbl(PERMIT_TRACKER_COLS, NoRows, t.new) ELSE t

PermitMigration(c, side) ==
  <<Tbl(c.cols, c.rows, <<side>>),
    Tbl(PERMIT_TRACKER_COLS, Remapped(c.rows, c.cols, PERMIT_TRACKER_COLS) @@ side, <<>>)>>

PermitEnsureFrom(c) ==
  <<c>> \o (IF c.cols = PERMIT_TRACKER_COLS THEN <<>>
            ELSE PermitMigration(c, IF c.new = <<>> THEN NoRows ELSE c.new[1]))

PermitEnsureStates(t) == PermitEnsureFrom(PermitCreated(t))

LastOf(states) == states[Len(states)]

\* The tables as _ensure_table leaves them when it runs to its end.
_ensure_table == LastOf(LandEnsureStates(Tbl(schema.land, land_tracker, schema.land_new)))

_ensure_table_permit ==
  LastOf(PermitEnsureStates(Tbl(schema.permit, permit_tracker, schema.permit_new)))

Init ==
  /\ \E d \in Datasets :
       /\ order_tracking_list = d.otl
       /\ mpp_data = d.mpp /\ sap_data = d.sap /\ epw_data = d.epw /\ land_data = d.land
       /\ manual_tracker = d.manual /\ joint_pole_data = d.jp
       /\ today = d.today
  /\ sap_tracker = NoRows /\ open_dependencies = NoRows
  /\ permit_tracker = NoRows /\ miscTSK_tracker = NoRows /\ faa_tracker = NoRows
  /\ environment_tracker = NoRows /\ land_tracker = NoRows /\ joint_pole_tracker = NoRows
  /\ land_tracker_exists = FALSE
  /\ lastOp = "init" /\ runs = 0 /\ dayMoves = 0 /\ ingests = 0
  /\ before = <<>>
  /\ missing = {} /\ abortAt = NoAbort /\ stops = 0 /\ saves = 0
  /\ schema = FreshSchema

(***************************************************************************)
(* Operations.                                                             *)
(***************************************************************************)

\* The tables build_sap_tracker_initial looks up in sqlite_master before it
\* writes, and the tables its stages read without such a lookup.
ValidatedTables == {"order_tracking_list", "mpp_data", "sap_data", "epw_data"}

ReadTables == ValidatedTables \cup {"land_data", "manual_tracker"}

\* build_sap_tracker_initial: seed, pivot, gates, then the six trackers in
\* the order of the calls; every stage reads what the stages before wrote.
build_sap_tracker_initial ==
  /\ missing \cap ReadTables = {}
  /\ sap_tracker' = update_codes_batch(SeedSapTracker(sap_tracker))
  /\ open_dependencies' =
       build_open_dependencies(sap_tracker', open_dependencies, land_tracker, land_tracker_exists)
  /\ permit_tracker' =
       build_permit_tracker(sap_tracker', open_dependencies', _ensure_table_permit.rows)
  /\ miscTSK_tracker' = build_misctsk_tracker(sap_tracker', open_dependencies', miscTSK_tracker)
  /\ faa_tracker' = build_faa_tracker(sap_tracker', open_dependencies', faa_tracker)
  /\ environment_tracker' =
       build_environment_tracker(sap_tracker', open_dependencies', environment_tracker)
  /\ land_tracker' = build_land_tracker(sap_tracker', open_dependencies', _ensure_table.rows)
  /\ joint_pole_tracker' =
       build_joint_pole_tracker(sap_tracker', open_dependencies', joint_pole_tracker)
  /\ land_tracker_exists' = TRUE
  /\ schema' = CanonicalSchema
  /\ before' = derived
  /\ lastOp' = "rebuild"
  /\ runs' = IF runs < MaxRuns THEN runs + 1 ELSE runs
  /\ abortAt' = NoAbort
  /\ UNCHANGED <<upstream, today, dayMoves, ingests, missing, stops, saves>>

\* The calendar date moves on to the next day.
AdvanceDay ==
  /\ dayMoves < MaxDayAdvance
  /\ today' = NextDay(today)
  /\ dayMoves' = dayMoves + 1
  /\ lastOp' = "day"
  /\ runs' = 0
  /\ UNCHANGED <<upstream, derived, before, ingests, missing, abortAt, stops, saves>>

\* replace_mpp_data: a newer MPP export replaces the snapshot; in it the
\* primary status of order 1 has moved.
IngestStatuses == {"PEND", "CNCL", "ESTS"}

WithPrimaryStatus(mpp, o, ps) ==
  [k \in 1..Len(mpp) |-> IF mpp[k].Order = o THEN [mpp[k] EXCEPT !.PrimaryStatus = ps] ELSE mpp[k]]

replace_mpp_data ==
  /\ ingests < MaxIngests
  /\ \E ps \in IngestStatuses : mpp_data' = WithPrimaryStatus(mpp_data, 1, ps)
  /\ mpp_data' # mpp_data
  /\ ingests' = ingests + 1
  /\ lastOp' = "ingest"
  /\ runs' = 0
  /\ UNCHANGED <<order_tracking_list, sap_data, epw_data, land_data, manual_tracker,
                 joint_pole_data, today, derived, before, dayMoves, missing, abortAt,
                 stops, saves>>

Next == build_sap_tracker_initial \/ AdvanceDay \/ replace_mpp_data

Spec == Init /\ [][Next]_vars

(***************************************************************************)
(* Rebuilds that do not run to their end.  Every stage commits on its own:  *)
(* conn.commit() after the seed and after each builder, and                 *)
(* cursor.executescript(), which first commits the pending transaction and  *)
(* then runs each statement of the script in its own transaction.  A run    *)
(* that stops (an exception of a statement, or the end of the process)      *)
(* leaves the database as its last commit left it; the `with` block of      *)
(* build_sap_tracker_initial rolls back only what is not yet committed.     *)
(* The cuts number those durable states in the order the run reaches them:  *)
(*   0 nothing written          1 seed            2 pivot                   *)
(*   3 gate columns upserted    4 open_dependencies done                    *)
(*   5 Permit DELETE            6 Permit done                               *)
(*   7 MiscTSK DELETE           8 MiscTSK done                              *)
(*   9 FAA DELETE              10 FAA done       11 Environment done        *)
(*  12 Land DELETE             13 Land INSERT    14 parsed columns (step 9) *)
(*  15 step 10                 16 step 11        17 step 12, Land done      *)
(***************************************************************************)
Stages == <<"sap_tracker", "open_dependencies", "Permit", "MiscTSK", "FAA", "Environment",
            "Land", "Joint Pole">>

LastCut == 17

Cuts == 0..LastCut

\* The stage that is running when the run stops in the durable state k.
StageOfCut(k) ==
  IF k <= 1 THEN 1 ELSE IF k <= 3 THEN 2 ELSE IF k <= 5 THEN 3 ELSE IF k <= 7 THEN 4
  ELSE IF k <= 9 THEN 5 ELSE IF k = 10 THEN 6 ELSE IF k <= 16 THEN 7 ELSE 8

\* Nothing of a run that stops is kept.
Kept_RolledBack(k, first, old, new) == old

\* A table whose new contents are committed at cut `first`.
Kept(k, first, old, new) == IF k < first THEN old ELSE new

\* A table whose DELETE is committed at cut `first` and whose INSERT OR
\* REPLACE at the next one.
KeptInTwo(k, first, old, final) ==
  IF k < first THEN old
  ELSE IF k = first THEN DeleteNotIn(old, {final[i].Order : i \in 1..Len(final)})
  ELSE ReplaceRows(old, final)

\* The INSERT OR REPLACE of the gate columns, before the two UPDATEs.
GateUpsert(st, od, lt, lt_exists) ==
  [o \in DOMAIN od \cup order_tracking_list |->
     IF o \in order_tracking_list THEN open_dep_final(Src(st, lt, lt_exists, o)) ELSE od[o]]

\* One row of land_tracker after step n (9..12) of build_land_tracker.
LandStepRow(row, parsed, n) ==
  [row EXCEPT !["Parsed Action"] = parsed[1],
              !["Parsed Anticipated Issue Date"] = parsed[2],
              !["Parsed Permit Expiration Date"] = parsed[3],
              !["Action"] =
                 IF n = 9 THEN row["Action"]
                 ELSE IF n = 10 THEN ParsedOverride(parsed[1], row["Action"])
                 ELSE IF n = 11
                   THEN MonumentOverride(parsed[1], row["SP57"], row["RP57"],
                                         ParsedOverride(parsed[1], row["Action"]))
                 ELSE ParsedInto(row, parsed)["Action"]]

LandThrough(lt, n) ==
  [o \in DOMAIN lt |->
     LandStepRow(lt[o], parse_comment_semantics(COALESCE(lt[o]["Latest Comment"], "")), n)]

\* land_tracker in the durable state k.
LandAtCut(k, st, od, lt) ==
  IF k <= 13 THEN KeptInTwo(k, 12, lt, land_final(st, od))
  ELSE IF k <= 16 THEN LandThrough(ReplaceRows(lt, land_final(st, od)), k - 5)
  ELSE build_land_tracker(st, od, lt)

\* The database a run leaves that stops in the durable state k; st1, st2
\* are the seeded and the pivoted sap_tracker, od3 and od4 the upserted and
\* the finished open_dependencies.
StoppedAt(k, st1, st2, od3, od4) ==
  /\ sap_tracker' = (IF k = 1 THEN st1 ELSE Kept(k, 2, sap_tracker, st2))
  /\ open_dependencies' = (IF k = 3 THEN od3 ELSE Kept(k, 4, open_dependencies, od4))
  /\ permit_tracker' = KeptInTwo(k, 5, permit_tracker, permit_tracker_final(st2, od4))
  /\ miscTSK_tracker' = KeptInTwo(k, 7, miscTSK_tracker, mt_final(st2, od4))
  /\ faa_tracker' = KeptInTwo(k, 9, faa_tracker, faa_final(st2, od4))
  /\ environment_tracker' =
       Kept(k, 11, environment_tracker, build_environment_tracker(st2, od4, environment_tracker))
  /\ land_tracker' = LandAtCut(k, st2, od4, land_tracker)
  /\ land_tracker_exists' = Kept(k, 12, land_tracker_exists, TRUE)
  /\ schema' = [schema EXCEPT !.permit = Kept(k, 5, @, PERMIT_TRACKER_COLS),
                              !.land = Kept(k, 12, @, LAND_COLS)]
  /\ joint_pole_tracker' = joint_pole_tracker
  /\ abortAt' = [stage |-> StageOfCut(k), cut |-> k]
  /\ before' = derived
  /\ runs' = 0
  /\ stops' = stops + 1
  /\ saves' = saves
  /\ UNCHANGED <<upstream, today, dayMoves, ingests, missing>>

StoppedFrom2(k, st1, st2) ==
  StoppedAt(k, st1, st2,
            GateUpsert(st2, open_dependencies, land_tracker, land_tracker_exists),
            build_open_dependencies(st2, open_dependencies, land_tracker, land_tracker_exists))

StoppedFrom1(k, st1) == StoppedFrom2(k, st1, update_codes_batch(st1))

\* The durable state in which a run stops that misses an upstream table:
\* the RuntimeError of the validation loop, the "no such table" of the
\* land_data script of build_open_dependencies, or that of the
\* manual_tracker script of build_environment_tracker.
RaiseCut ==
  IF missing \cap ValidatedTables # {} THEN 0 ELSE IF "land_data" \in missing THEN 2 ELSE 10

\* build_sap_tracker_initial on a database without one of the tables it reads.
build_sap_tracker_initial_raises ==
  /\ stops < MaxStops
  /\ missing \cap ReadTables # {}
  /\ StoppedFrom1(RaiseCut, SeedSapTracker(sap_tracker))
  /\ lastOp' = "raised"

\* build_sap_tracker_initial stopped from outside (the process ends, or a
\* statement fails on the database file) in one of its durable states.
build_sap_tracker_initial_interrupted ==
  /\ stops < MaxStops
  /\ missing \cap ReadTables = {}
  /\ \E k \in Cuts : StoppedFrom1(k, SeedSapTracker(sap_tracker))
  /\ lastOp' = "interrupted"

\* The databases of the runs that stop.  Order 1 has an open task of every
\* domain of S; the Land family gives its Land row a latest comment that
\* the override steps act upon; the plain family lacks an upstream table.
MissingChoices ==
  {{}, {"epw_data"}, {"land_data"}, {"manual_tracker"}, {"joint_pole_data"},
   {"land_data", "manual_tracker"}}

Relation(d, t) ==
  IF t = "epw_data" THEN d.epw ELSE IF t = "land_data" THEN d.land
  ELSE IF t = "manual_tracker" THEN d.manual ELSE d.jp

FaultDomains == {DomainSet, {"Permit", "Land"}, {"Land"}, {}}

FaultDatasets ==
  {Dataset(otl, BgMpp \o Mpp1("PEND", "OPEN"), BgSap \o OpenTasks(DomainList(S, 1)),
           <<>>, land, <<>>, <<>>, Today0) :
     otl \in {{1}, Orders}, S \in FaultDomains,
     land \in {<<>>, <<LandExp(Future, "01/05/2026")>>}}
    \cup
  {Dataset({1}, <<MppRow(1, "PEND", "OPEN", "", "", "", "2026")>>, OpenTasks(<<"Land">>), <<>>,
           Land1("Applied", "Encroachment", NULL, NULL, exp, lm, <<>>), <<>>, <<>>, Today0) :
     exp \in {NULL, Past}, lm \in LmChoices}

FaultInit ==
  /\ \E d \in FaultDatasets :
       /\ order_tracking_list = d.otl
       /\ mpp_data = d.mpp /\ sap_data = d.sap /\ epw_data = d.epw /\ land_data = d.land
       /\ manual_tracker = d.manual /\ joint_pole_data = d.jp
       /\ today = d.today
       /\ missing \in {m \in MissingChoices : \A t \in m : Relation(d, t) = <<>>}
  /\ sap_tracker = NoRows /\ open_dependencies = NoRows
  /\ permit_tracker = NoRows /\ miscTSK_tracker = NoRows /\ faa_tracker = NoRows
  /\ environment_tracker = NoRows /\ land_tracker = NoRows /\ joint_pole_tracker = NoRows
  /\ land_tracker_exists = FALSE
  /\ lastOp = "init" /\ runs = 0 /\ dayMoves = 0 /\ ingests = 0
  /\ before = <<>>
  /\ abortAt = NoAbort /\ stops = 0 /\ saves = 0
  /\ schema = FreshSchema

FaultNext ==
  \/ build_sap_tracker_initial
  \/ build_sap_tracker_initial_raises
  \/ build_sap_tracker_initial_interrupted
  \/ replace_mpp_data

FaultSpec == FaultInit /\ [][FaultNext]_vars

(***************************************************************************)
(* A rebuild interrupted inside a schema reconciliation, on databases that  *)
(* an earlier version of the program wrote.                                 *)
(***************************************************************************)

\* What every such stop leaves behind besides the tables.
EnsureStopped(stage) ==
  /\ abortAt' = [stage |-> stage, cut |-> IF stage = 3 THEN 4 ELSE 11]
  /\ before' = derived
  /\ runs' = 0
  /\ stops' = stops + 1
  /\ saves' = saves
  /\ lastOp' = "interrupted_ensure"
  /\ UNCHANGED <<upstream, today, dayMoves, ingests, missing>>

\* The rebuild stops in build_permit_tracker's _ensure_table, in the state p.
StoppedInPermitEnsure(st, od, p) ==
  /\ sap_tracker' = st
  /\ open_dependencies' = od
  /\ permit_tracker' = p.rows
  /\ schema' = [schema EXCEPT !.permit = p.cols, !.permit_new = p.new]
  /\ UNCHANGED <<miscTSK_tracker, faa_tracker, environment_tracker, land_tracker,
                 joint_pole_tracker, land_tracker_exists>>
  /\ EnsureStopped(3)

\* The rebuild stops in build_land_tracker's _ensure_table, in the state l;
\* the stages before Land have run to their end.
StoppedInLandEnsure(st, od, p, l) ==
  /\ sap_tracker' = st
  /\ open_dependencies' = od
  /\ permit_tracker' = build_permit_tracker(st, od, p.rows)
  /\ miscTSK_tracker' = build_misctsk_tracker(st, od, miscTSK_tracker)
  /\ faa_tracker' = build_faa_tracker(st, od, faa_tracker)
  /\ environment_tracker' = build_environment_tracker(st, od, environment_tracker)
  /\ land_tracker' = l.rows
  /\ land_tracker_exists' = (l.cols # <<>>)
  /\ schema' = [land |-> l.cols, land_new |-> l.new,
                permit |-> PERMIT_TRACKER_COLS, permit_new |-> <<>>]
  /\ UNCHANGED joint_pole_tracker
  /\ EnsureStopped(7)

StoppedInEnsure(st, od, ps, ls) ==
  \/ \E i \in 1..Len(ps) : StoppedInPermitEnsure(st, od, ps[i])
  \/ \E i \in 1..Len(ls) : StoppedInLandEnsure(st, od, LastOf(ps), ls[i])

StoppedInEnsureFrom(st) ==
  StoppedInEnsure(st,
                  build_open_dependencies(st, open_dependencies, land_tracker, land_tracker_exists),
                  PermitEnsureStates(Tbl(schema.permit, permit_tracker, schema.permit_new)),
                  LandEnsureStates(Tbl(schema.land, land_tracker, schema.land_new)))

build_sap_tracker_initial_interrupted_in_ensure_table ==
  /\ stops < MaxStops
  /\ missing \cap ReadTables = {}
  /\ StoppedInEnsureFrom(update_codes_batch(SeedSapTracker(sap_tracker)))

\* The column lists of the earlier versions: land_tracker before the three
\* parsed columns, and with two columns in another order; permit_tracker
\* before the two status columns.
LegacyLandCols ==
  {LAND_COLS,
   SelectSeq(LAND_COLS, LAMBDA c : c \notin {"Parsed Action", "Parsed Anticipated Issue Date",
                                             "Parsed Permit Expiration Date"}),
   <<"Order", "SAP Status", "Notification Status">> \o SubSeq(LAND_COLS, 4, Len(LAND_COLS))}

LegacyPermitCols ==
  {PERMIT_TRACKER_COLS,
   SelectSeq(PERMIT_TRACKER_COLS, LAMBDA c : c \notin {"SAP Status", "Notification Status"})}

\* The database an earlier version left: every tracker as a rebuild writes
\* it, land_tracker with the columns lc and permit_tracker with the columns pc.
LegacyTrackers(p, l) ==
  /\ miscTSK_tracker = build_misctsk_tracker(sap_tracker, open_dependencies, NoRows)
  /\ faa_tracker = build_faa_tracker(sap_tracker, open_dependencies, NoRows)
  /\ environment_tracker = build_environment_tracker(sap_tracker, open_dependencies, NoRows)
  /\ joint_pole_tracker = build_joint_pole_tracker(sap_tracker, open_dependencies, NoRows)
  /\ land_tracker_exists = TRUE
  /\ \E lc \in LegacyLandCols, pc \in LegacyPermitCols :
       /\ permit_tracker = Remapped(p, PERMIT_TRACKER_COLS, pc)
       /\ land_tracker = Remapped(l, LAND_COLS, lc)
       /\ schema = [land |-> lc, land_new |-> <<>>, permit |-> pc, permit_new |-> <<>>]

LegacyTables ==
  /\ sap_tracker = update_codes_batch(SeedSapTracker(NoRows))
  /\ open_dependencies = build_open_dependencies(sap_tracker, NoRows, NoRows, FALSE)
  /\ \E p \in {build_permit_tracker(sap_tracker, open_dependencies, NoRows)},
        l \in {build_land_tracker(sap_tracker, open_dependencies, NoRows)} : LegacyTrackers(p, l)

SchemaDatasets == {d \in FaultDatasets : d.otl = {1} /\ d.land # <<>>}

SchemaInit ==
  /\ \E d \in SchemaDatasets :
       /\ order_tracking_list = d.otl /\ mpp_data = d.mpp /\ sap_data = d.sap
       /\ epw_data = d.epw /\ land_data = d.land /\ manual_tracker = d.manual
       /\ joint_pole_data = d.jp /\ today = d.today
  /\ LegacyTables
  /\ lastOp = "init" /\ runs = 0 /\ before = <<>> /\ dayMoves = 0 /\ ingests = 0
  /\ missing = {} /\ abortAt = NoAbort /\ stops = 0 /\ saves = 0

SchemaNext ==
  \/ build_sap_tracker_initial
  \/ build_sap_tracker_initial_interrupted_in_ensure_table
  \/ replace_mpp_data

SchemaSpec == SchemaInit /\ [][SchemaNext]_vars

(***************************************************************************)
(* Snapshots whose expiration cells are not dates.                          *)
(***************************************************************************)
DateTexts == {NULL, "13/45/2025", "soon", "02/30/2026", Past, Future}

DateDatasets ==
  {Dataset({1},
           <<MppRow(1, "PEND", "OPEN", "", "", mexp, "2026")>>,
           <<SapRow(1, "SP56", "COMP"), SapRow(1, "RP56", "COMP")>> \o tasks,
           epw, land, <<>>, <<>>, Today0) :
     mexp \in {"", "13/45/2025"}, tasks \in LandTasks,
     epw \in {<<>>} \cup {<<EpwExp(x)>> : x \in DateTexts},
     land \in {<<>>} \cup {<<LandExp(x, "01/05/2026")>> : x \in DateTexts}}

DateInit ==
  /\ \E d \in DateDatasets :
       /\ order_tracking_list = d.otl
       /\ mpp_data = d.mpp /\ sap_data = d.sap /\ epw_data = d.epw /\ land_data = d.land
       /\ manual_tracker = d.manual /\ joint_pole_data = d.jp
       /\ today = d.today
  /\ sap_tracker = NoRows /\ open_dependencies = NoRows
  /\ permit_tracker = NoRows /\ miscTSK_tracker = NoRows /\ faa_tracker = NoRows
  /\ environment_tracker = NoRows /\ land_tracker = NoRows /\ joint_pole_tracker = NoRows
  /\ land_tracker_exists = FALSE
  /\ lastOp = "init" /\ runs = 0 /\ dayMoves = 0 /\ ingests = 0
  /\ before = <<>>
  /\ missing = {} /\ abortAt = NoAbort /\ stops = 0 /\ saves = 0
  /\ schema = FreshSchema

DateNext == build_sap_tracker_initial \/ AdvanceDay

DateSpec == DateInit /\ [][DateNext]_vars

(***************************************************************************)
(* Manual inputs: save_pasted_pairs writes pasted (Order, Value) pairs     *)
(* into one column of manual_tracker.                                      *)
(***************************************************************************)
StartsWith(s, pre) == Len(s) >= Len(pre) /\ SubSeq(s, 1, Len(pre)) = pre

\* The column the field name selects, NULL when the name is not supported
\* (ValueError).
ManualColumn(field_canonical) ==
  LET fld == LowerStr(TRIM(field_canonical))
  IN  IF StartsWith(fld, "environment anticipated") THEN "EnvAnticipatedOutDate"
      ELSE IF StartsWith(fld, "environment notes") THEN "EnvNotes"
      ELSE IF StartsWith(fld, "sent to ou") THEN "SentToOUDate"
      ELSE IF StartsWith(fld, "permit notes") THEN "PermitNotes"
      ELSE IF StartsWith(fld, "land notes") THEN "LandNotes"
      ELSE IF StartsWith(fld, "faa notes") THEN "FAANotes"
      ELSE IF StartsWith(fld, "joint pole notes") THEN "JointPoleNotes"
      ELSE NULL

\* int(str(o).strip()) succeeds.
IsOrderText(o) == TRIM(o) # "" /\ AllDigits(TRIM(o))

\* The (order, value) pairs that are kept: a pair whose order is not a
\* number is skipped, a missing value becomes '', a value is stripped.
ParsedPair(pair) == <<CastInt(TRIM(pair[1])), IF pair[2] = NULL THEN "" ELSE TRIM(pair[2])>>

parsed_pairs(pairs) ==
  LET kept == SelectSeq(pairs, LAMBDA pr : IsOrderText(pr[1]))
  IN  [k \in 1..Len(kept) |-> ParsedPair(kept[k])]

\* INSERT ... ON CONFLICT("Order") DO UPDATE SET col = excluded.col
Upsert_Replace(mt, col, o, val) == IF \E i \in 1..Len(mt) : mt[i].Order = o THEN [i \in 1..Len(mt) |-> IF mt[i].Order = o THEN [ManualRow(o, NULL, NULL) EXCEPT ![col] = val] ELSE mt[i]] ELSE Append(mt, [ManualRow(o, NULL, NULL) EXCEPT ![col] = val])
Upsert(mt, col, o, val) ==
  IF \E i \in 1..Len(mt) : mt[i].Order = o
  THEN [i \in 1..Len(mt) |-> IF mt[i].Order = o THEN [mt[i] EXCEPT ![col] = val] ELSE mt[i]]
  ELSE Append(mt, [ManualRow(o, NULL, NULL) EXCEPT ![col] = val])

RECURSIVE executemany(_, _, _)
executemany(mt, col, pp) ==
  IF pp = <<>> THEN mt
  ELSE executemany(Upsert(mt, col, pp[1][1], pp[1][2]), col, SubSeq(pp, 2, Len(pp)))

Saved(mt, field_canonical, pairs) ==
  IF ManualColumn(field_canonical) = NULL THEN mt
  ELSE executemany(mt, ManualColumn(field_canonical), parsed_pairs(pairs))

PastedFields == {"Environment Anticipated Out Date", " land notes", "Status"}

\* The pasted lines: an order with a value to strip, an order without a
\* value, a line whose first cell is no order number.
PastedLines == {<<"1", " 04/01/2026 ">>, <<" 2 ", NULL>>, <<"7A", "n/a">>}

MaxSaves == 2

\* A paste of one line or of two.
PastedPairs == {<<l>> : l \in PastedLines} \cup {<<l, m>> : l \in PastedLines, m \in PastedLines}

save_pasted_pairs_of(field_canonical, pairs) ==
  /\ saves < MaxSaves
  /\ manual_tracker' = Saved(manual_tracker, field_canonical, pairs)
  /\ lastOp' = "saved"
  /\ runs' = 0
  /\ saves' = saves + 1
  /\ UNCHANGED <<order_tracking_list, mpp_data, sap_data, epw_data, land_data, joint_pole_data,
                 today, derived, before, dayMoves, ingests, missing, abortAt, stops>>

save_pasted_pairs == \E f \in PastedFields, pairs \in PastedPairs : save_pasted_pairs_of(f, pairs)

ManualDatasets ==
  {Dataset({1}, Mpp1("PEND", "OPEN"), <<SapRow(1, "PC21", "INPR")>>, <<>>, <<>>, manual, <<>>, Today0) :
     manual \in {<<>>, <<ManualRow(1, "3/1/2026", "note")>>,
                 <<ManualRow(2, NULL, "other"), ManualRow(1, "3/1/2026", "note")>>}}

ManualInit ==
  /\ \E d \in ManualDatasets :
       /\ order_tracking_list = d.otl
       /\ mpp_data = d.mpp /\ sap_data = d.sap /\ epw_data = d.epw /\ land_data = d.land
       /\ manual_tracker = d.manual /\ joint_pole_data = d.jp
       /\ today = d.today
  /\ sap_tracker = NoRows /\ open_dependencies = NoRows
  /\ permit_tracker = NoRows /\ miscTSK_tracker = NoRows /\ faa_tracker = NoRows
  /\ environment_tracker = NoRows /\ land_tracker = NoRows /\ joint_pole_tracker = NoRows
  /\ land_tracker_exists = FALSE
  /\ lastOp = "init" /\ runs = 0 /\ dayMoves = 0 /\ ingests = 0
  /\ before = <<>>
  /\ missing = {} /\ abortAt = NoAbort /\ stops = 0 /\ saves = 0
  /\ schema = FreshSchema

ManualNext == build_sap_tracker_initial \/ save_pasted_pairs

ManualSpec == ManualInit /\ [][ManualNext]_vars

(***************************************************************************)
(* The databases of the comment classifier: one pending order whose         *)
(* land_data row carries one dated comment, with texts that match one,      *)
(* several or none of the phrase families of parse_comment_semantics.       *)
(***************************************************************************)
CommentTexts ==
  {"Permit obtained. No permit needed for the crossing.",
   "Applied for permit 1/5/2026, permit obtained. Expires 2/1/2026",
   "Applied for Caltrans permit. Land request reviewed, permit required",
   "Land request reviewed. Permit required. Batched for land review",
   "Batched for land review. Land tasks cleared",
   "No permit needed. No monuments found",
   "No monuments found",
   "Waiting on customer",
   "if a permit is required",
   "We may need a permit if required by the city. No additional land rights",
   "No additional land rights",
   "Pole moved to avoid permit. No permit needed.",
   "If the scope changes a permit is required, otherwise no permit needed."}

CommentDatasets ==
  {Dataset({1}, Mpp1("PEND", ns), tasks, <<>>,
           Land1(status, "Encroachment", NULL, NULL, exp,
                 <<Line("2026-02-10", "AB12", txt)>>, <<>>),
           <<>>, <<>>, Today0) :
     ns \in {"OPEN", "HOLD"}, tasks \in LandTasks, status \in {"Applied", "On Hold"},
     exp \in {NULL, Past}, txt \in CommentTexts}

CommentInit ==
  /\ \E d \in CommentDatasets :
       /\ order_tracking_list = d.otl
       /\ mpp_data = d.mpp /\ sap_data = d.sap /\ epw_data = d.epw /\ land_data = d.land
       /\ manual_tracker = d.manual /\ joint_pole_data = d.jp
       /\ today = d.today
  /\ sap_tracker = NoRows /\ open_dependencies = NoRows
  /\ permit_tracker = NoRows /\ miscTSK_tracker = NoRows /\ faa_tracker = NoRows
  /\ environment_tracker = NoRows /\ land_tracker = NoRows /\ joint_pole_tracker = NoRows
  /\ land_tracker_exists = FALSE
  /\ lastOp = "init" /\ runs = 0 /\ dayMoves = 0 /\ ingests = 0
  /\ before = <<>>
  /\ missing = {} /\ abortAt = NoAbort /\ stops = 0 /\ saves = 0
  /\ schema = FreshSchema

CommentNext == build_sap_tracker_initial \/ AdvanceDay

CommentSpec == CommentInit /\ [][CommentNext]_vars

(***************************************************************************)
(* Properties of the rebuild.  "After a rebuild" is lastOp = "rebuild";     *)
(* `before` then holds the derived relations as that rebuild found them.    *)
(* Status cells are read as the gate engine reads them: trimmed and in      *)
(* upper case.                                                             *)
(***************************************************************************)
AfterRebuild == lastOp = "rebuild"

Tracked == order_tracking_list

\* The two Actions of a Land tracker row that mean "no permit".
Sentinels == {"Review complete. No permit needed.", "Permit not required."}

\* The Land tracker a rebuild found held a sentinel row for the order.
SentinelBefore(o) ==
  /\ before[9]
  /\ o \in DOMAIN before[7]
  /\ TRIM(before[7][o]["Action"]) \in Sentinels

\* C1: with the upstream relations and the date unchanged, every rebuild
\* after the first leaves sap_tracker, open_dependencies and the six
\* trackers as the rebuild before it left them.
C1_Idempotent == (AfterRebuild /\ runs >= 2) => derived = before

\* C2: a Land tracker row with a sentinel Action belongs to an order whose
\* Land gate is still Pending at the end of the rebuild that produced the
\* row, and the next rebuild closes the Land gate of that order while its
\* primary status is PEND, UNSC or CONS, whatever SP57 and RP57 show.
C2_OneCycleStaleness ==
  AfterRebuild =>
    \A o \in Tracked :
      /\ (o \in DOMAIN land_tracker /\ land_tracker[o]["Action"] \in Sentinels)
           => open_dependencies[o]["Land"] = "Pending"
      /\ (SentinelBefore(o) /\ Norm(sap_tracker, o, "Primary Status") \in {"PEND", "UNSC", "CONS"})
           => open_dependencies[o]["Land"] = "Closed"

\* C2, its case: the Land task of order 1 is in progress, the rebuild before
\* this one derived 'Review complete. No permit needed.' from the comments
\* while the gate was Pending, and this rebuild has closed the gate.
C2_Witness ==
  /\ AfterRebuild
  /\ 1 \in Tracked
  /\ SentinelBefore(1)
  /\ before[7][1]["Action"] = "Review complete. No permit needed."
  /\ before[2][1]["Land"] = "Pending"
  /\ Norm(sap_tracker, 1, "SP57") = "INPR"
  /\ open_dependencies[1]["Land"] = "Closed"

\* The day number of an MM/DD/YYYY cell, -1 for a cell without a date.
DayOfCell(raw) == IF _to_iso_case(raw) = NULL THEN -1 ELSE IsoDayNumber(_to_iso_case(raw))

MaxOf(a, b) == IF a >= b THEN a ELSE b

\* The expiration dates the gates match to an order, as day numbers.
PermitExpirationDay(o) ==
  MaxOf(DayOfCell(Cell(epw_data, MinRid(epw_data, "OrderNumber", o), "EPWExpirationDate")),
        DayOfCell(Cell(mpp_data, MinRid(mpp_data, "Order", o), "PermitExpDate")))

LandExpirationDay(o) == DayOfCell(Cell(land_data, LandPicked(o), "PermitExpiration"))

AbsentOrPast(day) == day = -1 \/ day < IsoDayNumber(today)

\* The documented predicate of the Permit and Land gates over a start code
\* sp, a completion code rp and an expiration day.
ExpiryPredicate(o, sp, rp, day) ==
  /\ Norm(sap_tracker, o, "Primary Status") \in {"PEND", "UNSC", "CONS"}
  /\ \/ Norm(sap_tracker, o, sp) \in {"INPR", "ACTD"}
     \/ Norm(sap_tracker, o, rp) \in {"INPR", "INPT", "ACTD"}
     \/ Norm(sap_tracker, o, rp) = "COMP" /\ AbsentOrPast(day)

GateIs(o, domain, pending) ==
  open_dependencies[o][domain] = (IF pending THEN "Pending" ELSE "Closed")

\* C3: after a rebuild the Permit gate of every tracked order is Pending iff
\* its primary status is PEND, UNSC or CONS and SP56 is INPR or ACTD, or
\* RP56 is INPR, INPT or ACTD, or RP56 is COMP while the later of the EPW
\* and MPP expiration dates is absent or before today, and Closed
\* otherwise; the Land gate is the same over SP57, RP57 and the land permit
\* expiration unless the Land tracker the rebuild found held a sentinel row.
C3_ExpiryGates ==
  AfterRebuild =>
    \A o \in Tracked :
      /\ GateIs(o, "Permit", ExpiryPredicate(o, "SP56", "RP56", PermitExpirationDay(o)))
      /\ ~SentinelBefore(o)
           => GateIs(o, "Land", ExpiryPredicate(o, "SP57", "RP57", LandExpirationDay(o)))

\* C3, its case: a completed RP56 whose EPW expiration is later than the MPP
\* one and has passed keeps the Permit gate Pending.
C3_Witness ==
  /\ AfterRebuild
  /\ 1 \in Tracked
  /\ Norm(sap_tracker, 1, "RP56") = "COMP"
  /\ Norm(sap_tracker, 1, "SP56") = "COMP"
  /\ PermitExpirationDay(1) # -1
  /\ PermitExpirationDay(1) < IsoDayNumber(today)
  /\ DayOfCell(Cell(mpp_data, MinRid(mpp_data, "Order", 1), "PermitExpDate"))
       < DayOfCell(Cell(epw_data, MinRid(epw_data, "OrderNumber", 1), "EPWExpirationDate"))
  /\ DayOfCell(Cell(mpp_data, MinRid(mpp_data, "Order", 1), "PermitExpDate")) # -1
  /\ open_dependencies[1]["Permit"] = "Pending"

Allowed(o) == Norm(sap_tracker, o, "Primary Status") \in {"PEND", "UNSC", "CONS"}

\* The designated task codes of the three single-status domains.
DesignatedCodes(domain) ==
  IF domain = "FAA" THEN {"PC24", "DS76"}
  ELSE IF domain = "Environment" THEN {"PC21"}
  ELSE {"PC20"}

InProgressCodes(o, domain) ==
  {c \in DesignatedCodes(domain) : Norm(sap_tracker, o, c) = "INPR"}

\* C4 as stated: after a rebuild the FAA, Environment and Joint Pole gates of
\* a tracked order are Closed when its primary status is outside PEND, UNSC,
\* CONS, and otherwise Pending iff exactly one designated code is INPR.
C4_ExactlyOneCode ==
  AfterRebuild =>
    \A o \in Tracked : \A domain \in {"FAA", "Environment", "Joint Pole"} :
      GateIs(o, domain, Allowed(o) /\ Cardinality(InProgressCodes(o, domain)) = 1)

\* C4, amended: after a rebuild the FAA, Environment and Joint Pole gates of
\* a tracked order are Closed when its primary status is outside PEND, UNSC,
\* CONS, and otherwise Pending iff at least one designated code is INPR.
C4_AtLeastOneCode ==
  AfterRebuild =>
    \A o \in Tracked : \A domain \in {"FAA", "Environment", "Joint Pole"} :
      GateIs(o, domain, Allowed(o) /\ InProgressCodes(o, domain) # {})

\* C4, its case: both FAA codes of order 1 are INPR and the gate is Pending.
C4_Witness ==
  /\ AfterRebuild
  /\ 1 \in Tracked
  /\ Allowed(1)
  /\ InProgressCodes(1, "FAA") = {"PC24", "DS76"}
  /\ open_dependencies[1]["FAA"] = "Pending"

\* C5: after a rebuild the MiscTSK gate of a tracked order is Pending iff its
\* primary status is PEND and one of AP10, AP25, DS28, DS73 holds
\* 'Clear Task'; in every other case, UNSC or CONS with a 'Clear Task' cell
\* included, it is Closed.
C5_MiscTSKGate ==
  AfterRebuild =>
    \A o \in Tracked :
      GateIs(o, "MiscTSK",
             /\ Norm(sap_tracker, o, "Primary Status") = "PEND"
             /\ \E c \in {"AP10", "AP25", "DS28", "DS73"} : sap_tracker[o][c] = "Clear Task")

\* C5, its case: one order in PEND with a 'Clear Task' cell and a Pending
\* gate, another in UNSC with a 'Clear Task' cell and a Closed gate.
C5_Witness ==
  /\ AfterRebuild
  /\ \E o \in Tracked :
       /\ Norm(sap_tracker, o, "Primary Status") = "PEND"
       /\ sap_tracker[o]["AP25"] = "Clear Task"
       /\ open_dependencies[o]["MiscTSK"] = "Pending"
  /\ \E o \in Tracked :
       /\ Norm(sap_tracker, o, "Primary Status") = "UNSC"
       /\ sap_tracker[o]["AP10"] = "Clear Task"
       /\ open_dependencies[o]["MiscTSK"] = "Closed"

\* The names of the Pending domains of a gate row from position i on, in
\* the fixed order.
RECURSIVE PendingNames(_, _)
PendingNames(row, i) ==
  IF i > Len(Domains) THEN <<>>
  ELSE (IF row[Domains[i]] = "Pending" THEN <<Domains[i]>> ELSE <<>>) \o PendingNames(row, i + 1)

\* The names of a list joined by single spaces.
RECURSIVE JoinBySpace(_)
JoinBySpace(names) ==
  IF names = <<>> THEN ""
  ELSE IF Len(names) = 1 THEN names[1]
  ELSE names[1] \o " " \o JoinBySpace(Tail(names))

AllClosed(row) == \A domain \in DomainSet : row[domain] = "Closed"

\* C6: after a rebuild 'Open Dependencies' of every row of open_dependencies
\* is 'None' iff all six gates are Closed, and otherwise the names of
\* exactly the Pending domains joined by single spaces in the order Permit,
\* Land, FAA, Environment, Joint Pole, MiscTSK.
C6_OpenDependencies ==
  AfterRebuild =>
    \A o \in DOMAIN open_dependencies :
      /\ open_dependencies[o]["Open Dependencies"] = "None" <=> AllClosed(open_dependencies[o])
      /\ ~AllClosed(open_dependencies[o])
           => open_dependencies[o]["Open Dependencies"]
                = JoinBySpace(PendingNames(open_dependencies[o], 1))

\* C6, its case: a row with three Pending gates, the two-word name among them.
C6_Witness ==
  /\ AfterRebuild
  /\ \E o \in DOMAIN open_dependencies :
       open_dependencies[o]["Open Dependencies"] = "Permit Joint Pole MiscTSK"
  /\ \E o \in DOMAIN open_dependencies :
       open_dependencies[o]["Open Dependencies"] = "Environment"

\* The label of the first rule of a list of <<condition, label>> pairs
\* whose condition holds, `otherwise` when none does.
RECURSIVE FirstMatch(_, _)
FirstMatch(rules, otherwise) ==
  IF rules = <<>> THEN otherwise
  ELSE IF Head(rules)[1] THEN Head(rules)[2]
  ELSE FirstMatch(Tail(rules), otherwise)

StageLabels ==
  {"Cancelled/Deferred.", "Ready for Construction.", "Dependencies not met. Return to PEND.",
   "Dependencies met.", "Pending dependencies.", "Estimating.", "Construction Complete.",
   "Unknown stage of job."}

\* The rules of Stage of Job in their priority order.
StageRules(ps, ns, aggregate) ==
  << <<ps \in {"CNCL", "ESTS", "DEFR", "APPR"} /\ ns = "CNCL", "Cancelled/Deferred.">>,
     <<ps \in {"UNSC", "CONS"} /\ aggregate = "None", "Ready for Construction.">>,
     <<ps \in {"UNSC", "CONS"} /\ aggregate # "None", "Dependencies not met. Return to PEND.">>,
     <<ps = "PEND" /\ aggregate = "None", "Dependencies met.">>,
     <<ps = "PEND" /\ aggregate # "None", "Pending dependencies.">>,
     <<ps \in {"UNSE", "ESTS", "ADER", "APPR"}, "Estimating.">>,
     <<ps \in {"DCNL", "PROD", "DOCC", "FICL", "CLSD", "MAPP"}, "Construction Complete.">> >>

NotifOf(o) == UPPER(TRIM(COALESCE(NotifStatusOf(o), "")))

StageIs(o, ps, ns, aggregate, stage) ==
  /\ stage = FirstMatch(StageRules(ps, ns, aggregate), "Unknown stage of job.")
  /\ stage \in StageLabels
  /\ (ps \in {"ESTS", "APPR"} /\ ns = "CNCL") => stage = "Cancelled/Deferred."
  /\ stage \in {"Ready for Construction.", "Dependencies met."} => aggregate = "None"

\* C7: after a rebuild Stage of Job of every gate row is the label of the
\* first matching rule in the order Cancelled/Deferred, Ready for
\* Construction, Dependencies not met, Dependencies met, Pending
\* dependencies, Estimating, Construction Complete, Unknown stage of job:
\* one of these eight labels; Cancelled/Deferred and not Estimating for ESTS
\* or APPR with notification status CNCL; Ready for Construction and
\* Dependencies met only with Open Dependencies 'None'.
C7_StageOfJob ==
  AfterRebuild =>
    \A o \in DOMAIN open_dependencies :
      StageIs(o, Norm(sap_tracker, o, "Primary Status"), NotifOf(o),
              open_dependencies[o]["Open Dependencies"], open_dependencies[o]["Stage of Job"])

\* C7, its case: an order in ESTS whose notification is cancelled.
C7_Witness ==
  /\ AfterRebuild
  /\ 1 \in DOMAIN open_dependencies
  /\ Norm(sap_tracker, 1, "Primary Status") = "ESTS"
  /\ NotifOf(1) = "CNCL"
  /\ open_dependencies[1]["Stage of Job"] = "Cancelled/Deferred."

\* The tracker table of a domain.
TrackerOf(domain) ==
  IF domain = "Permit" THEN permit_tracker
  ELSE IF domain = "Land" THEN land_tracker
  ELSE IF domain = "FAA" THEN faa_tracker
  ELSE IF domain = "Environment" THEN environment_tracker
  ELSE IF domain = "Joint Pole" THEN joint_pole_tracker
  ELSE miscTSK_tracker

\* C8: after a rebuild each of the six trackers holds a row for an order iff
\* the gate of the domain is Pending for it in open_dependencies as that
\* rebuild computed it: a row an earlier rebuild left for an order no longer
\* Pending is gone, and the rows are the freshly computed ones, those the
\* builder writes into an empty table.
C8_RowLifecycle ==
  AfterRebuild =>
    /\ \A domain \in DomainSet :
         DOMAIN TrackerOf(domain) = PendingOrders(open_dependencies, domain)
    /\ permit_tracker = build_permit_tracker(sap_tracker, open_dependencies, NoRows)
    /\ miscTSK_tracker = build_misctsk_tracker(sap_tracker, open_dependencies, NoRows)
    /\ faa_tracker = build_faa_tracker(sap_tracker, open_dependencies, NoRows)
    /\ environment_tracker = build_environment_tracker(sap_tracker, open_dependencies, NoRows)
    /\ land_tracker = build_land_tracker(sap_tracker, open_dependencies, NoRows)
    /\ joint_pole_tracker = build_joint_pole_tracker(sap_tracker, open_dependencies, NoRows)

\* C8, its case: the rebuild found a Land row of order 1 and no Permit row;
\* order 1 is no longer Pending for Land and newly Pending for Permit, so
\* the Land row is gone and a Permit row has appeared.
C8_Witness ==
  /\ AfterRebuild
  /\ 1 \in DOMAIN before[2]
  /\ 1 \in DOMAIN before[7] /\ 1 \notin DOMAIN land_tracker
  /\ open_dependencies[1]["Land"] = "Closed"
  /\ 1 \notin DOMAIN before[3] /\ 1 \in DOMAIN permit_tracker
  /\ open_dependencies[1]["Permit"] = "Pending"

\* C9: after a rebuild open_dependencies holds the row of every order of
\* order_tracking_list (the table is keyed by "Order": one row), whatever
\* its primary status and also without rows in mpp_data and sap_data, and
\* each of its six gates is 'Pending' or 'Closed'.
C9_RowPerTrackedOrder ==
  AfterRebuild =>
    /\ Tracked \subseteq DOMAIN open_dependencies
    /\ \A o \in Tracked :
         /\ open_dependencies[o]["Order"] = o
         /\ \A domain \in DomainSet : open_dependencies[o][domain] \in {"Pending", "Closed"}

\* C9, its case: a tracked order that mpp_data and sap_data do not know has
\* its row, next to an order with a Pending gate.
C9_Witness ==
  /\ AfterRebuild
  /\ \E o \in Tracked :
       /\ RowsOf(mpp_data, "Order", o) = <<>>
       /\ RowsOf(sap_data, "Order", o) = <<>>
       /\ o \in DOMAIN open_dependencies
       /\ AllClosed(open_dependencies[o])
  /\ \E o \in Tracked : ~AllClosed(open_dependencies[o])

\* The ordered rule lists of the four trackers that have an Action.
PermitRules(es, exp, click, wpd, days) ==
  << <<es = "Not Needed", "Permit not needed. Please close SP/RP56.">>,
     <<exp # NULL /\ DateGe(exp, today),
       "Please confirm permit is approved and complete SAP task.">>,
     <<exp # NULL /\ DateLt(exp, today) /\ click = NULL,
       "Please provide CLICK Date for extension.">>,
     <<exp # NULL /\ DateLt(exp, today) /\ DateGe(click, today), "Please request for extension.">>,
     <<exp # NULL /\ DateLt(exp, today) /\ click # NULL /\ DateLt(click, today),
       "Please request for extension.">>,
     <<es = "In Progress" /\ wpd # NULL /\ DateLt(wpd, today),
       "In progress but past WPD. Please escalate.">>,
     <<es = "In Progress" /\ (wpd = NULL \/ DateGe(wpd, today)), "In progress.">>,
     <<es = "Not Created" /\ wpd # NULL /\ DateGe(wpd, NotCreatedWpdFloor),
       "Permit not created. Need current WPD.">>,
     <<es = "Not Created" /\ wpd # NULL /\ DateLt(wpd, today),
       "Not created and past WPD. Please escalate.">>,
     <<es = "Submitted" /\ SubmitDaysInt(days) > SubmitDaysLimit,
       "Submitted over 45 days. Please provide update.">>,
     <<es = "Submitted" /\ SubmitDaysInt(days) <= SubmitDaysLimit, "In progress.">> >>

EnvironmentRules(out) ==
  << <<out = NULL, "Please provide anticipated out date.">>,
     <<out # NULL /\ IsoDayNumber(out) >= IsoDayNumber(today), "In progress.">>,
     <<out # NULL /\ IsoDayNumber(out) < IsoDayNumber(today),
       "Past anticipated out date. Please provide update or close PC21.">> >>

DaysFromToday(iso) == IF iso = NULL THEN 0 ELSE IsoDayNumber(iso) - IsoDayNumber(today)

JointPoleRules(pis, low, status_dt, due_dt, wpd_dt) ==
  << <<pis = NULL \/ TRIM(pis) = "", "Review.">>,
     <<Contains(low, "draft"), "Intent in draft. Please review and provide update.">>,
     <<Contains(low, "deleted") \/ Contains(low, "cancelled") \/ Contains(low, "canceled"),
       "Intent has been deleted/cancelled. Please review and complete task if joint pole not required.">>,
     <<Contains(low, "estimator") /\ wpd_dt # NULL /\ DaysFromToday(wpd_dt) > WpdHorizonDays,
       "Pending estimating review. No action required.">>,
     <<Contains(low, "estimator") /\ wpd_dt # NULL,
       "Pending estimating review and WPD in less that 90 days. Please provide update.">>,
     <<Contains(low, "construction"), "Released to construction. Please complete PC20.">>,
     <<Contains(low, "engineering"), "Estimation and joint pole attention needed.">>,
     <<Contains(low, "sent to ou") /\ due_dt # NULL /\ DaysFromToday(due_dt) < 0,
       "OU days exceeded. Please complete PC20.">>,
     <<Contains(low, "sent to ou") /\ due_dt # NULL, "Pending OU review.">>,
     <<Contains(low, "ready") /\ status_dt # NULL /\ 0 - DaysFromToday(status_dt) > ReadyAgeDays,
       "Intent in ready to send status. Please send to OU for review.">>,
     <<Contains(low, "ready") /\ status_dt # NULL,
       "Intent in ready to send status. Pending clerical review.">> >>

\* The rules of the Land tracker: the permit-expired rule, the two monument
\* rules and the parsed no-permit rule ahead of the structural rules.
LandRules(row, parsed, both_comp, exp1, exp2, wpd, pry, exp, app, issue) ==
  << <<UPPER(TRIM(COALESCE(row["Notification Status"], ""))) = "OPEN"
         /\ (exp1 # NULL \/ exp2 # NULL)
         /\ MaxOf(JulianDayOr(exp1), JulianDayOr(exp2)) < IsoDayNumber(today),
       "Permit expired. Please request for extension.">>,
     <<parsed = "Monument survey complete." /\ both_comp,
       "Monument survey complete. No action required.">>,
     <<parsed = "Monument survey complete.", "check">>,
     <<parsed = "Review complete. No permit needed.", "Review complete. No permit needed.">>,
     <<both_comp /\ row["Permit Type"] = NULL
         /\ row["Permit Comment"] = <<>> /\ row["Land Management Comments"] = <<>>,
       "Permit not required.">>,
     <<wpd # NULL /\ pry # NULL /\ SqlDate(wpd) # NULL /\ IsoYear(SqlDate(wpd)) > CastInt(pry),
       "WPD ahead of PRY. Please pull in the job.">>,
     <<row["Permit Type"] = NULL
         /\ row["Permit Comment"] = <<>> /\ row["Land Management Comments"] = <<>>,
       "No data available. Permit likely not required.">>,
     <<row["Permit Status"] = "No permit required.",
       "Please confirm no permit is required and complete SP/RP57.">>,
     <<row["Permit Status"] = "Permit obtained." /\ exp # NULL /\ DateGe(exp, today),
       "Please confirm permit is obtained and complete SP/RP57.">>,
     <<app # NULL /\ DateGt(app, today),
       "Anticipated application date is in the future. No action required.">>,
     <<issue # NULL /\ DateGt(issue, today),
       "Anticipated issue date is in the future. No action required.">>,
     <<row["Permit Status"] = "On Hold", "Job on hold. No action required.">> >>

BlankToNull(x) == NULLIF(TRIM(COALESCE(x, "")), "")

MppCell(o, c) == Cell(mpp_data, MinRid(mpp_data, "Order", o), c)

PermitRowFollowsRules(row) ==
  row["Action"] =
    FirstMatch(PermitRules(row["E Permit Status"], _to_iso_case(row["Permit Expiration Date"]),
                           _to_iso_case(row["CLICK Start Date"]),
                           _to_iso_case(row["Work Plan Date"]), row["Submit Days"]),
               "check")

EnvironmentRowFollowsRules(row) ==
  row["Action"] =
    FirstMatch(EnvironmentRules(_parse_to_iso(row["Environment Anticipated Out Date"])), "check")

JointPoleRowFollowsRules(row) ==
  row["Action"] =
    FirstMatch(JointPoleRules(row["Primary Intent Status"],
                              LowerStr(COALESCE(row["Primary Intent Status"], "")),
                              _parse_to_iso(row["Status Date"]), _parse_to_iso(row["Due By"]),
                              _parse_to_iso(MppCell(row["Order"], "WorkPlanDate"))),
               "check")

LandRowFollowsRules(row) ==
  row["Action"] =
    FirstMatch(LandRules(row, row["Parsed Action"],
                         UPPER(TRIM(row["SP57"])) = "COMP" /\ UPPER(TRIM(row["RP57"])) = "COMP",
                         _to_iso_case_flex(BlankToNull(row["Permit Expiration Date"])),
                         _to_iso_case_flex(BlankToNull(row["Parsed Permit Expiration Date"])),
                         _to_iso_case(MppCell(row["Order"], "WorkPlanDate")),
                         BlankToNull(MppCell(row["Order"], "PRY")),
                         _to_iso_case(row["Permit Expiration Date"]),
                         _to_iso_case(row["Anticipated Application Date"]),
                         _to_iso_case(row["Anticipated Issue Date"])),
               "check")

\* Every row of the Permit, Land, Environment and Joint Pole trackers has
\* an Action, the label of the first matching rule of the domain's list
\* and 'check' when no rule matches.
ActionsFollowRules ==
  /\ \A o \in DOMAIN permit_tracker :
       "Action" \in DOMAIN permit_tracker[o] /\ PermitRowFollowsRules(permit_tracker[o])
  /\ \A o \in DOMAIN environment_tracker :
       "Action" \in DOMAIN environment_tracker[o]
         /\ EnvironmentRowFollowsRules(environment_tracker[o])
  /\ \A o \in DOMAIN joint_pole_tracker :
       "Action" \in DOMAIN joint_pole_tracker[o] /\ JointPoleRowFollowsRules(joint_pole_tracker[o])
  /\ \A o \in DOMAIN land_tracker :
       "Action" \in DOMAIN land_tracker[o] /\ LandRowFollowsRules(land_tracker[o])

Stopped == lastOp \in {"raised", "interrupted"}

\* C11: a rebuild on a database that lacks one of the upstream relations it
\* reads raises before it has modified any table: sap_tracker,
\* open_dependencies and the six trackers are as the run found them.
C11_FailFast == lastOp = "raised" => derived = before

\* What a rebuild that runs to its end writes to the table of stage i,
\* given the derived relations b it starts from.
RebuiltSap(b) == update_codes_batch(SeedSapTracker(b[1]))

RebuiltGates(b) == build_open_dependencies(RebuiltSap(b), b[2], b[7], b[9])

RebuiltTable(i, b, st, od) ==
  CASE i = 1 -> st
    [] i = 2 -> od
    [] i = 3 -> build_permit_tracker(st, od, b[3])
    [] i = 4 -> build_misctsk_tracker(st, od, b[4])
    [] i = 5 -> build_faa_tracker(st, od, b[5])
    [] i = 6 -> build_environment_tracker(st, od, b[6])
    [] i = 7 -> build_land_tracker(st, od, b[7])
    [] OTHER -> build_joint_pole_tracker(st, od, b[8])

Rebuilt(i) == RebuiltTable(i, before, RebuiltSap(before), RebuiltGates(before))

\* C12: when a stage of a rebuild raises, the table of every stage that
\* completed before it holds its newly rebuilt contents and the table of
\* every stage after it holds what it held before the rebuild.
C12_NoRollback ==
  Stopped =>
    \A i \in 1..Len(Stages) :
      /\ i < abortAt.stage => derived[i] = Rebuilt(i)
      /\ i > abortAt.stage => derived[i] = before[i]

\* A run that stops in the MiscTSK builder: the Permit tracker is rebuilt
\* and differs from before, the FAA tracker keeps rows a full rebuild
\* would have removed.
C12_Witness ==
  /\ Stopped /\ abortAt.stage = 4
  /\ permit_tracker # before[3] /\ permit_tracker = Rebuilt(3)
  /\ faa_tracker # NoRows /\ faa_tracker = before[5] /\ faa_tracker # Rebuilt(5)

\* C13: each domain builder takes effect as one unit: after a run that
\* stops anywhere, every tracker table holds either what it held before
\* the run or the complete output of its builder.
C13_AtomicBuilders ==
  Stopped => \A i \in 3..Len(Stages) : derived[i] = before[i] \/ derived[i] = Rebuilt(i)


\* A table after an interrupted reconciliation still exists, has the rows it
\* had, and has the columns it had or the canonical ones.
Reconciled(cols, rows, oldCols, oldRows, canonical) ==
  /\ cols # <<>>
  /\ ColSet(cols) \in {ColSet(oldCols), ColSet(canonical)}
  /\ DOMAIN rows = DOMAIN oldRows
  /\ \A o \in DOMAIN rows : \A c \in ColSet(cols) \cap ColSet(oldCols) : rows[o][c] = oldRows[o][c]

\* C14: when a rebuild is interrupted at any step of a schema reconciliation,
\* the table being reconciled (permit_tracker, or land_tracker) still exists
\* under its own name with all its rows and either its old or the canonical
\* column set: the table is never missing and no row is lost.
C14_NeverPartial ==
  lastOp = "interrupted_ensure" =>
    /\ abortAt.stage = 3 =>
         Reconciled(schema.permit, permit_tracker, before[10].permit, before[3], PERMIT_TRACKER_COLS)
    /\ abortAt.stage = 7 =>
         Reconciled(schema.land, land_tracker, before[10].land, before[7], LAND_COLS)


\* The primary status the seed wrote, and the status tokens of the order's
\* events of one code, read from the snapshot.
Estimated(o) == UPPER(COALESCE(sap_tracker[o]["Primary Status"], "")) \in {"ESTS", "UNSE", "ADER", "APPR"}

Tokens(o, c) == {sap_data[i].TaskUsrStatus : i \in {j \in 1..Len(sap_data) : sap_data[j].Order = o /\ sap_data[j].Code = c}}

FamilyDefault(c) == IF c \in {"SP56", "RP56", "SP57", "RP57"} THEN "ACTD" ELSE "INPR"

C15_Cell(o, c, v) ==
  /\ Estimated(o) => v = "Pending Estimation"
  /\ ~Estimated(o) =>
       /\ v = "NOTN" <=> Tokens(o, c) = {}
       /\ Tokens(o, c) # {} => v \notin {"", NULL}
       /\ Tokens(o, c) \ {"", NULL} # {} => v \in Tokens(o, c)
       /\ (Tokens(o, c) # {} /\ Tokens(o, c) \subseteq {"", NULL}) => v = FamilyDefault(c)

\* C15: after a rebuild, for every tracked order and each of the ten
\* status-tracked codes the profile value is 'Pending Estimation' when the
\* primary status is ESTS, UNSE, ADER or APPR; otherwise 'NOTN' iff the order
\* has no event of the code; otherwise a non-empty status token of the
\* order's events of the code, or, when all of them are blank, the family
\* default (ACTD for SP56/RP56/SP57/RP57, INPR for the other six).
C15_PivotCell ==
  lastOp = "rebuild" =>
    \A o \in order_tracking_list : \A c \in StatusCodes : C15_Cell(o, c, sap_tracker[o][c])

C15_Witness ==
  /\ lastOp = "rebuild"
  /\ 1 \in order_tracking_list
  /\ ~Estimated(1)
  /\ Tokens(1, "SP56") = {""} /\ sap_tracker[1]["SP56"] = "ACTD"
  /\ Tokens(1, "RP56") = {} /\ sap_tracker[1]["RP56"] = "NOTN"

Cleared(o) == UPPER(COALESCE(sap_tracker[o]["Primary Status"], "")) \in {"PEND", "UNSC", "CONS"}

\* C16: after a rebuild, for every tracked order and each of the four
\* ancillary codes (AP10, AP25, DS28, DS73) the profile value is 'Clear Task'
\* iff the primary status is PEND, UNSC or CONS and INPR is among the
\* statuses of the order's events of the code, whatever the other events of
\* the code carry; otherwise it is '-'.
C16_ClearTask ==
  lastOp = "rebuild" =>
    \A o \in order_tracking_list : \A c \in AncillaryCodes :
      sap_tracker[o][c] = (IF Cleared(o) /\ \E t \in Tokens(o, c) : UPPER(COALESCE(t, "")) = "INPR"
                           THEN "Clear Task" ELSE "-")

\* The profile value of one code, computed from a list of sap_data rows.
PivotCell(sap, ps, o, c) ==
  IF c \in StatusCodes THEN StatusValue(ps, c, EventsIn(sap, o, c) # {}, tusIn(sap, o, c))
  ELSE AncillaryValue(ps, EventsIn(sap, o, c) # {}, tusIn(sap, o, c))

\* The lists with the rows of sap_data in another insertion order: every
\* exchange of two rows (the exchanges generate all permutations), and the
\* reversed list.
Reorderings == {Swapped(sap_data, i, j) : i, j \in 1..Len(sap_data)} \cup {Reversed(sap_data)}

\* C17: the profile a rebuild writes to sap_tracker depends only on the
\* multiset of the sap_data rows and on the primary statuses: with the rows
\* of sap_data inserted in any other order, every code of every tracked
\* order gets the same value.
C17_OrderIndependent ==
  lastOp = "rebuild" =>
    \A sap \in Reorderings : \A o \in order_tracking_list : \A c \in Codes :
      PivotCell(sap, sap_tracker[o]["Primary Status"], o, c) = sap_tracker[o][c]

C17_Witness ==
  /\ lastOp = "rebuild"
  /\ 1 \in order_tracking_list
  /\ \E i, j \in 1..Len(sap_data) :
       /\ i < j
       /\ sap_data[i].Order = 1 /\ sap_data[j].Order = 1
       /\ sap_data[i].Code = "SP56" /\ sap_data[j].Code = "SP56"
       /\ sap_data[i].TaskUsrStatus = "INPR" /\ sap_data[j].TaskUsrStatus = "COMP"
  /\ sap_tracker[1]["SP56"] = "INPR"
  /\ Swapped(sap_data, 1, Len(sap_data)) # sap_data

\* A cell that holds a calendar date, in the MM/DD/YYYY form of the
\* snapshots or the M/D/YYYY form of the Land tracker.
IsCalendarDate(iso) ==
  /\ iso # NULL
  /\ IsoShaped(iso)
  /\ IsoMonth(iso) \in 1..12
  /\ IsoDay(iso) \in 1..DaysInMonth(IsoYear(iso), IsoMonth(iso))

CellNoDate(raw) == ~IsCalendarDate(_to_iso_case(raw))

NoDateFlex(raw) == ~IsCalendarDate(_to_iso_case_flex(raw))

PermitExpired(row) == row["Action"] = "Permit expired. Please request for extension."

DayOfLandCell(raw) ==
  IF IsCalendarDate(_to_iso_case_flex(raw)) THEN IsoDayNumber(_to_iso_case_flex(raw)) ELSE -1

LaterExpiration(row) ==
  MaxOf(DayOfLandCell(row["Permit Expiration Date"]),
        DayOfLandCell(row["Parsed Permit Expiration Date"]))

NotificationOpen(row) == UPPER(TRIM(COALESCE(row["Notification Status"], ""))) = "OPEN"

\* C18: after a rebuild every Land tracker row whose Notification Status is
\* OPEN and whose later expiration (of 'Permit Expiration Date' and 'Parsed
\* Permit Expiration Date') is before today has the action 'Permit expired.
\* Please request for extension.', whatever the structural rules and the
\* comment classification gave; a row whose Notification Status is not OPEN
\* never has it.
C18_ExpiredWins ==
  AfterRebuild =>
    \A o \in DOMAIN land_tracker :
      /\ (/\ NotificationOpen(land_tracker[o])
          /\ LaterExpiration(land_tracker[o]) # -1
          /\ LaterExpiration(land_tracker[o]) < IsoDayNumber(today))
           => PermitExpired(land_tracker[o])
      /\ ~NotificationOpen(land_tracker[o]) => ~PermitExpired(land_tracker[o])

C18_Witness ==
  /\ AfterRebuild
  /\ 1 \in DOMAIN land_tracker
  /\ NotificationOpen(land_tracker[1])
  /\ land_tracker[1]["Parsed Action"] = "Review complete. No permit needed."
  /\ LaterExpiration(land_tracker[1]) # -1
  /\ LaterExpiration(land_tracker[1]) < IsoDayNumber(today)
  /\ PermitExpired(land_tracker[1])

\* The row of a snapshot the documented tie-break picks for an order: the
\* row with the latest valid creation date (the first-inserted of them), or
\* the first-inserted row when no row of the order has one.  epw_data has no
\* creation date.
CreatedDay(i) == DayOfCell(IF IsCalendarDate(_to_iso_case(land_data[i].PermitCreatedDate)) THEN land_data[i].PermitCreatedDate ELSE NULL)

LatestCreated(S) == {i \in S : CreatedDay(i) # -1 /\ \A j \in S : CreatedDay(j) <= CreatedDay(i)}

TieBreakLand(o) ==
  MinOrZero(IF LatestCreated({i \in 1..Len(land_data) : land_data[i].Order = o}) # {}
            THEN LatestCreated({i \in 1..Len(land_data) : land_data[i].Order = o})
            ELSE {i \in 1..Len(land_data) : land_data[i].Order = o})

TieBreakEpw(o) == MinOrZero({i \in 1..Len(epw_data) : epw_data[i].OrderNumber = o})

\* C20: after a rebuild every stage has read, for every tracked order, the
\* snapshot row the tie-break picks: the Permit gate and the Permit tracker
\* the picked epw_data row, the Environment tracker the same epw_data row,
\* the Land gate and the Land tracker the picked land_data row.
C20_SameRowEverywhere ==
  AfterRebuild =>
    \A o \in Tracked :
      /\ GateIs(o, "Permit",
                ExpiryPredicate(o, "SP56", "RP56",
                  MaxOf(DayOfCell(Cell(epw_data, TieBreakEpw(o), "EPWExpirationDate")),
                        DayOfCell(Cell(mpp_data, MinRid(mpp_data, "Order", o), "PermitExpDate")))))
      /\ o \in DOMAIN permit_tracker =>
           permit_tracker[o]["Submit Days"] = Cell(epw_data, TieBreakEpw(o), "SubmitDays")
      /\ o \in DOMAIN environment_tracker =>
           environment_tracker[o]["Environment Status"]
             = COALESCE(Cell(epw_data, TieBreakEpw(o), "EnvStatus"), "")
      /\ ~SentinelBefore(o) =>
           GateIs(o, "Land",
                  ExpiryPredicate(o, "SP57", "RP57",
                    DayOfCell(Cell(land_data, TieBreakLand(o), "PermitExpiration"))))
      /\ o \in DOMAIN land_tracker =>
           land_tracker[o]["Permit Expiration Date"]
             = COALESCE(Cell(land_data, TieBreakLand(o), "PermitExpiration"), "")

\* The orders with exactly one land_data row, that row, and the parsed
\* (iso, mdy, id, text) of its two comment fields: the Land Management
\* comments are the first source, the Permit Comment the second.
OneLandRow(o) == Cardinality({i \in 1..Len(land_data) : land_data[i].Order = o}) = 1

LandRowOf(o) == CHOOSE i \in 1..Len(land_data) : land_data[i].Order = o

FirstSource(o) == extract_latest_comment_block(land_data[LandRowOf(o)].LandMgmtComments)

SecondSource(o) == extract_latest_comment_block(land_data[LandRowOf(o)].PermitComment)

Dated(src) == src[1] \notin {NULL, ""}

WithText(src) == src[4] \notin {NULL, ""}

SecondWins(a, b) ==
  \/ Dated(a) /\ Dated(b) /\ StrLess(a[1], b[1])
  \/ ~Dated(a) /\ Dated(b)
  \/ ~Dated(a) /\ ~Dated(b) /\ WithText(b) /\ ~WithText(a)

Shown(x) == IF x \in {NULL, ""} THEN "Not enough data" ELSE x

ShowsDateAndText(row, src) ==
  /\ row["Latest Comment Date"] = Shown(src[2])
  /\ row["Latest Comment"] = Shown(src[4])

\* C21: after a rebuild the Land tracker row of an order shows the date and
\* the text of the Permit Comment when that source has the strictly more
\* recent date, or the only date, or (neither being dated) the only text,
\* and of the Land Management comments in every other case, ties included.
C21_Reconciliation ==
  AfterRebuild =>
    \A o \in DOMAIN land_tracker :
      OneLandRow(o) =>
        ShowsDateAndText(land_tracker[o],
                         IF SecondWins(FirstSource(o), SecondSource(o)) THEN SecondSource(o)
                         ELSE FirstSource(o))

C21_Witness ==
  /\ AfterRebuild
  /\ 1 \in DOMAIN land_tracker /\ OneLandRow(1)
  /\ Dated(FirstSource(1)) /\ FirstSource(1)[1] = SecondSource(1)[1]
  /\ FirstSource(1)[4] # SecondSource(1)[4]
  /\ land_tracker[1]["Latest Comment"] = FirstSource(1)[4]

\* C22: after a rebuild, when the winning source of an order's Land tracker
\* row has no author id and the losing source has one, the LAN ID of the row
\* is the losing source's id.
C22_IdentifierFallback ==
  AfterRebuild =>
    \A o \in DOMAIN land_tracker :
      OneLandRow(o) =>
        /\ (/\ SecondWins(FirstSource(o), SecondSource(o))
            /\ SecondSource(o)[3] \in {NULL, ""} /\ FirstSource(o)[3] \notin {NULL, ""})
             => land_tracker[o]["LAN ID"] = FirstSource(o)[3]
        /\ (/\ ~SecondWins(FirstSource(o), SecondSource(o))
            /\ FirstSource(o)[3] \in {NULL, ""} /\ SecondSource(o)[3] \notin {NULL, ""})
             => land_tracker[o]["LAN ID"] = SecondSource(o)[3]

\* The phrase families in the order of the claim, each with its category,
\* on the lower-cased latest comment of a Land tracker row.
FamilyMatches(k, t) ==
  CASE k = 1 -> Search(_OBTAINED_RE, t)
    [] k = 2 -> _matches_applied(t)
    [] k = 3 -> _matches_reviewed_permit_required(t)
    [] k = 4 -> _matches_under_review(t)
    [] k = 5 -> _matches_no_permit(t)
    [] k = 6 -> _matches_monument_done(t)

Categories ==
  <<"Permit obtained.", "Permit applied for.",
    "Request has been reviewed and permit is required.", "Under review.",
    "Review complete. No permit needed.", "Monument survey complete.">>

MatchingFamilies(t) == {k \in 1..6 : FamilyMatches(k, t)}

FirstCategory(t) ==
  IF MatchingFamilies(t) = {} THEN "check"
  ELSE Categories[CHOOSE k \in MatchingFamilies(t) : \A j \in MatchingFamilies(t) : k <= j]

CommentOf(row) == LowerStr(COALESCE(row["Latest Comment"], ""))

\* C23: after a rebuild the Parsed Action of every Land tracker row is the
\* category of the first family, in the order obtained, applied, reviewed
\* and permit required, under review, no permit needed, monument survey
\* complete, that its latest comment matches, and 'check' when it matches
\* none.
C23_ClassifierPriority ==
  AfterRebuild =>
    \A o \in DOMAIN land_tracker :
      land_tracker[o]["Parsed Action"] = FirstCategory(CommentOf(land_tracker[o]))

C23_Witness ==
  /\ AfterRebuild
  /\ 1 \in DOMAIN land_tracker
  /\ {1, 5} \subseteq MatchingFamilies(CommentOf(land_tracker[1]))
  /\ land_tracker[1]["Parsed Action"] = "Permit obtained."

\* C24: after a rebuild no Land tracker row whose latest comment matches a
\* disqualifier phrase ('to avoid permit', 'if/may/will ... permit ...
\* required') has the Parsed Action 'Review complete. No permit needed.'.
C24_Disqualified ==
  AfterRebuild =>
    \A o \in DOMAIN land_tracker :
      SearchAny(_DISQUALIFY, CommentOf(land_tracker[o]))
        => land_tracker[o]["Parsed Action"] # "Review complete. No permit needed."

\* The manual columns, the column a field name names, the orders a paste
\* gives, and the cell of an order in a manual_tracker content (NULL when
\* the order has no row).
ManualColumns ==
  {"EnvAnticipatedOutDate", "EnvNotes", "SentToOUDate", "PermitNotes", "LandNotes", "FAANotes",
   "JointPoleNotes"}

NamedColumn(field) ==
  CASE LowerStr(TRIM(field)) = "environment anticipated out date" -> "EnvAnticipatedOutDate"
    [] LowerStr(TRIM(field)) = "environment notes" -> "EnvNotes"
    [] LowerStr(TRIM(field)) = "land notes" -> "LandNotes"
    [] OTHER -> "none"

GivenOrders(pairs) ==
  {CastInt(TRIM(pairs[k][1])) : k \in {j \in 1..Len(pairs) : IsOrderText(pairs[j][1])}}

ManualOrders(mt) == {mt[i].Order : i \in 1..Len(mt)}

ManualRowsOf(mt, o) == {mt[i] : i \in {j \in 1..Len(mt) : mt[j].Order = o}}

ManualCell(mt, o, col) ==
  IF o \in ManualOrders(mt) THEN (CHOOSE r \in ManualRowsOf(mt, o) : TRUE)[col] ELSE NULL

OnlyNamedColumn(mt, mt2, field, pairs) ==
  /\ ManualOrders(mt) \subseteq ManualOrders(mt2)
  /\ \A o \in ManualOrders(mt2) :
       /\ Cardinality(ManualRowsOf(mt2, o)) = 1
       /\ o \notin GivenOrders(pairs) => ManualRowsOf(mt2, o) = ManualRowsOf(mt, o)
       /\ \A col \in ManualColumns \ {NamedColumn(field)} :
            ManualCell(mt2, o, col) = ManualCell(mt, o, col)

\* C25: a rebuild leaves manual_tracker as it is, and a save of pasted
\* pairs keeps every row, leaves the rows of the orders it was not given as
\* they are, and changes no column but the named one in the rows of the
\* orders it was given.
C25_ManualFrame ==
  [][/\ lastOp' = "rebuild" => manual_tracker' = manual_tracker
     /\ lastOp' = "saved" =>
          \A f \in PastedFields, pairs \in PastedPairs :
            save_pasted_pairs_of(f, pairs) => OnlyNamedColumn(manual_tracker, manual_tracker', f, pairs)]_vars

C25_Witness ==
  /\ AfterRebuild /\ saves > 0
  /\ ManualOrders(manual_tracker) = {1, 2}
  /\ ManualCell(manual_tracker, 1, "EnvAnticipatedOutDate") = "04/01/2026"
  /\ ManualCell(manual_tracker, 1, "EnvNotes") = "note"
  /\ ManualCell(manual_tracker, 2, "EnvNotes") = "other"
  /\ environment_tracker[1]["Environment Anticipated Out Date"] = "04/01/2026"

\* The rebuild that has just ended closed the Land gate of order o by the
\* short-circuit: it found a sentinel Action in the Land tracker row of o.
ClosedBySentinel(o) ==
  /\ AfterRebuild
  /\ o \in Tracked
  /\ SentinelBefore(o)
  /\ open_dependencies[o]["Land"] = "Closed"

\* C26: when a rebuild has closed the Land gate of an order by the
\* short-circuit, a rebuild that follows it with nothing changed in between
\* leaves the gate Closed.
C26_ShortCircuitStable ==
  [][\A o \in Tracked :
       (ClosedBySentinel(o) /\ lastOp' = "rebuild" /\ upstream' = upstream /\ today' = today)
         => open_dependencies'[o]["Land"] = "Closed"]_vars

\* The Action the structural rule list gives a Land tracker row: the first
\* matching rule of the list without the three override rules at its head.
StructuralRules(row) ==
  SubSeq(LandRules(row, row["Parsed Action"],
                   UPPER(TRIM(row["SP57"])) = "COMP" /\ UPPER(TRIM(row["RP57"])) = "COMP",
                   _to_iso_case_flex(BlankToNull(row["Permit Expiration Date"])),
                   _to_iso_case_flex(BlankToNull(row["Parsed Permit Expiration Date"])),
                   _to_iso_case(MppCell(row["Order"], "WorkPlanDate")),
                   BlankToNull(MppCell(row["Order"], "PRY")),
                   _to_iso_case(row["Permit Expiration Date"]),
                   _to_iso_case(row["Anticipated Application Date"]),
                   _to_iso_case(row["Anticipated Issue Date"])),
         5, 12)

StructuralOf(row) == FirstMatch(StructuralRules(row), "check")

BothComplete(row) == UPPER(TRIM(row["SP57"])) = "COMP" /\ UPPER(TRIM(row["RP57"])) = "COMP"

TextOverride(row) ==
  IF row["Parsed Action"] = "Review complete. No permit needed."
  THEN "Review complete. No permit needed."
  ELSE IF row["Parsed Action"] = "Monument survey complete."
  THEN (IF BothComplete(row) THEN "Monument survey complete. No action required." ELSE "check")
  ELSE StructuralOf(row)

\* C27: after a rebuild the Action of a Land tracker row differs from the
\* Action of the structural rule list only when the Parsed Action is the
\* no-permit sentinel or 'Monument survey complete.' or when the
\* permit-expired rule has set it; when the expired rule has not, the Action
\* is the sentinel for the sentinel, the monument label (SP57 and RP57 both
\* COMP) or 'check' for the monument result, and the structural Action for
\* every other Parsed Action.
C27_TextOverride ==
  AfterRebuild =>
    \A o \in DOMAIN land_tracker :
      /\ land_tracker[o]["Action"] # StructuralOf(land_tracker[o])
           => \/ land_tracker[o]["Parsed Action"]
                   \in {"Review complete. No permit needed.", "Monument survey complete."}
              \/ PermitExpired(land_tracker[o])
      /\ ~PermitExpired(land_tracker[o])
           => land_tracker[o]["Action"] = TextOverride(land_tracker[o])

C27_Witness ==
  /\ AfterRebuild
  /\ 1 \in DOMAIN land_tracker
  /\ land_tracker[1]["Parsed Action"] = "Monument survey complete."
  /\ StructuralOf(land_tracker[1]) = "Job on hold. No action required."
  /\ ~PermitExpired(land_tracker[1])
  /\ land_tracker[1]["Action"] = "Monument survey complete. No action required."

\* The expiration the Land tracker row of an order shows, as a day number.
ShownExpiration(o) == DayOfCell(BlankToNull(land_tracker[o]["Permit Expiration Date"]))

\* C28: after a rebuild the Land gate of every order that has a Land
\* tracker row is the one the expiration shown in that row gives: the gate
\* engine and the Land builder have read the same land_data row, also when
\* several rows of the order carry the latest Permit Created Date.
C28_GateMatchesTracker ==
  AfterRebuild =>
    \A o \in Tracked :
      (o \in DOMAIN land_tracker /\ ~SentinelBefore(o))
        => GateIs(o, "Land", ExpiryPredicate(o, "SP57", "RP57", ShownExpiration(o)))

\* The order is in estimation: its primary status is one of the four
\* estimation statuses.
InEstimation(o) == sap_tracker[o]["Primary Status"] \in {"ESTS", "UNSE", "ADER", "APPR"}

DomainTrackers ==
  <<permit_tracker, land_tracker, faa_tracker, environment_tracker, joint_pole_tracker,
    miscTSK_tracker>>

\* C29: after a rebuild a tracked order in estimation has 'Pending
\* Estimation' in its ten status codes and '-' in its four ancillary codes,
\* its six gates are Closed, its Open Dependencies are 'None', and it has a
\* row in none of the six domain trackers.
C29_EstimationOrders ==
  AfterRebuild =>
    \A o \in Tracked :
      InEstimation(o) =>
        /\ \A c \in StatusCodes : sap_tracker[o][c] = "Pending Estimation"
        /\ \A c \in AncillaryCodes : sap_tracker[o][c] = "-"
        /\ \A k \in 1..Len(Domains) : open_dependencies[o][Domains[k]] = "Closed"
        /\ open_dependencies[o]["Open Dependencies"] = "None"
        /\ \A k \in 1..Len(DomainTrackers) : o \notin DOMAIN DomainTrackers[k]

C29_Witness ==
  /\ AfterRebuild
  /\ 1 \in Tracked /\ InEstimation(1)
  /\ \E i \in 1..Len(sap_data) : sap_data[i].Order = 1 /\ sap_data[i].TaskUsrStatus = "INPR"
  /\ \E k \in 3..8 : 1 \in DOMAIN before[k]

\* A Permit tracker row of a permit that was not created, without a permit
\* expiration date and with a Work Plan Date.
UncreatedWithWpd(row) ==
  /\ row["E Permit Status"] = "Not Created"
  /\ DayOfCell(row["Permit Expiration Date"]) = -1
  /\ DayOfCell(row["Work Plan Date"]) # -1

\* C30: after a rebuild the Action of such a row is 'Permit not created.
\* Need current WPD.' when the Work Plan Date is today or later and 'Not
\* created and past WPD. Please escalate.' when it is before today.
C30_UncreatedAgainstToday ==
  AfterRebuild =>
    \A o \in DOMAIN permit_tracker :
      UncreatedWithWpd(permit_tracker[o]) =>
        permit_tracker[o]["Action"]
          = (IF DayOfCell(permit_tracker[o]["Work Plan Date"]) >= IsoDayNumber(today)
             THEN "Permit not created. Need current WPD."
             ELSE "Not created and past WPD. Please escalate.")

====
